---------------------------- MODULE Spec2Model ----------------------------
(***************************************************************************)
(* A model of libmega's image codec core (imutils): the reversible         *)
(* YCoCg-R colour transform, the quantization-table machinery, the Bink-2  *)
(* style integer 8x8 DCT kernels, the 16x16 block encoder and decoder, and *)
(* the zig-zag table.                                                      *)
(*                                                                         *)
(* C buffers are functions over 0..N-1, so every index below is the C      *)
(* index.  int16_t stores wrap modulo 2^16 (ToInt16); int32_t values stay  *)
(* far below 2^31 for the inputs enumerated here.  ">>" on a signed value  *)
(* is the arithmetic shift (Sar), "/" is C's truncating division.          *)
(*                                                                         *)
(* Each subsystem has its own specification (SpecColor, SpecQuant, ...)    *)
(* over the shared variables; the variables of the other subsystems stay   *)
(* at Nil.                                                                 *)
(***************************************************************************)
EXTENDS Integers, Sequences, FiniteSets, TLC

VARIABLES
    pc,         \* position of the calling program
    rgba,       \* uint8_t RGBA[1024]  : input block, 16x16 RGBA8
    ycocg,      \* int16_t YCoCg[768]  : interleaved Y, Co, Cg
    alpha,      \* uint8_t A[256]      : the separated alpha plane
    rgbaOut,    \* uint8_t RGBA[1024]  : reconstructed block
    rgbOut,     \* uint8_t RGB[768]    : reconstructed block without alpha
    Y,          \* int16_t Y[256]      : four quantized luma blocks
    Co,         \* int16_t Co[64]      : quantized chroma-orange block
    Cg,         \* int16_t Cg[64]      : quantized chroma-green block
    Qluma,      \* int16_t Qluma[64]
    Qchroma,    \* int16_t Qchroma[64]
    quality,    \* int quality
    Qbase,      \* int16_t Qbase[64]   : base table given to quantization_table
    Q,          \* int16_t Q[64]       : table written by quantization_table
    src,        \* int16_t src[64]     : 8x8 sample block
    quant,      \* int16_t quant[64]   : table given to fdct8x8iq / idct8x8id
    coef,       \* int16_t dst[64] of the forward transform
    dst,        \* int16_t dst[64] of the inverse transform
    natural,    \* a 64-element array in natural order
    stream,     \* the array emitted in zig-zag order
    restored,   \* the stream put back in natural order
    config,     \* image_tiler_config_t : the tiler configuration and its image
    tile,       \* image_tile_t         : the destination tile
    tiles,      \* num_x, num_y and the return value of tile_count
    index,      \* the index given to the last copy_tile
    ret,        \* how the last copy_tile ended
    ub,         \* whether the last copy_tile read or wrote outside a buffer
    rects,      \* the source rectangles of the tiles copied so far, by index
    touched,    \* the image offsets the last copy_tile read and the pixels it wrote
    ioq,        \* io_queue_t           : Count and Items[IOQ_MAX_OPS]
    ioRet,      \* the return value of the last io_queue_add / io_queue_next
    ioOffset,   \* the offset stored by the last io_queue_next
    pending,    \* the operations added and not yet returned, with their numbers
    ioLast,     \* the operation the last io_queue_next took from the queue
    chroma      \* size_t channel     : the channel given to subsample

vars == <<pc, rgba, ycocg, alpha, rgbaOut, rgbOut, Y, Co, Cg, Qluma, Qchroma,
          quality, Qbase, Q, src, quant, coef, dst, natural, stream, restored,
          config, tile, tiles, index, ret, ub, rects, touched, ioq, ioRet,
          ioOffset, pending, ioLast, chroma>>

varsColor  == <<ycocg>>
varsCodec  == <<rgbOut, Y, Co, Cg>>
varsPixels == <<rgba, alpha, rgbaOut>>
varsTables == <<Qluma, Qchroma, quality>>
varsQuant  == <<Qbase, Q>>
varsDct    == <<src, quant, coef, dst>>
varsZigZag == <<natural, stream, restored>>
varsTiler  == <<config, tile, tiles, index, ret, ub, rects, touched>>
varsIoq    == <<ioq, ioRet, ioOffset, pending, ioLast>>
varsSample == <<chroma>>

\* The value of a buffer that has not been written.
Nil == <<>>

---------------------------------------------------------------------------
(* Integer arithmetic of the C code.                                       *)

\* Conversion to int16_t: the value modulo 2^16, in [-32768, 32767].
ToInt16(x) ==
    LET m == x % 65536
    IN  IF m >= 32768 THEN m - 65536 ELSE m

\* x >> n on a signed integer: arithmetic shift, rounding toward -infinity.
Sar(x, n) == x \div (2 ^ n)

\* a / b in C: the quotient truncated toward zero.
TruncDiv(a, b) ==
    LET n == IF a < 0 THEN -a ELSE a
        d == IF b < 0 THEN -b ELSE b
        q == n \div d
    IN  IF (a < 0) = (b < 0) THEN q ELSE -q

qmin(a, b) == IF a < b THEN a ELSE b

qmax(a, b) == IF a > b THEN a ELSE b

\* Clamp to [0, 255], returned as a byte.
clamp(v) == IF v < 0 THEN 0 ELSE IF v > 255 THEN 255 ELSE v

Bytes == 0 .. 255

---------------------------------------------------------------------------
(* Colour-space conversion.                                                *)

\* Mutation of PixelToYCoCg: luma without the halving of Cg.
PixelToYCoCg_NoHalf(r, g, b) ==
    LET co == ToInt16(r - b)
        t  == ToInt16(b + Sar(co, 1))
        cg == ToInt16(g - t)
        y  == ToInt16(t + cg)
    IN  <<y, co, cg>>

\* The body of the loop of rgba_to_ycocga: one pixel's (Y, Co, Cg).
PixelToYCoCg(r, g, b) ==
    LET co == ToInt16(r - b)
        t  == ToInt16(b + Sar(co, 1))
        cg == ToInt16(g - t)
        y  == ToInt16(t + Sar(cg, 1))
    IN  <<y, co, cg>>

\* rgba_to_ycocga: 256 RGBA8 pixels to 768 int16 and 256 alpha bytes.
rgba_to_ycocga(RGBA) ==
    [ycocg |-> [k \in 0 .. 767 |->
                  PixelToYCoCg(RGBA[4 * (k \div 3)], RGBA[4 * (k \div 3) + 1],
                               RGBA[4 * (k \div 3) + 2])[(k % 3) + 1]],
     alpha |-> [i \in 0 .. 255 |-> RGBA[4 * i + 3]]]

\* Mutation of YCoCgToPixel: a truncating division in place of the shift.
YCoCgToPixel_Div(y, co, cg) ==
    LET t == ToInt16(y - TruncDiv(cg, 2))
        g == ToInt16(cg + t)
        b == ToInt16(t - TruncDiv(co, 2))
        r == ToInt16(b + co)
    IN  <<r, g, b>>

\* The inverse lifting of one pixel, before the clamp: (r, g, b) as int16.
YCoCgToPixel(y, co, cg) ==
    LET t == ToInt16(y - Sar(cg, 1))
        g == ToInt16(cg + t)
        b == ToInt16(t - Sar(co, 1))
        r == ToInt16(b + co)
    IN  <<r, g, b>>

\* ycocga_to_rgba: 768 int16 and 256 alpha bytes to 256 RGBA8 pixels.
ycocga_to_rgba(YCoCg, A) ==
    [k \in 0 .. 1023 |->
        IF k % 4 = 3
        THEN A[k \div 4]
        ELSE clamp(YCoCgToPixel(YCoCg[3 * (k \div 4)], YCoCg[3 * (k \div 4) + 1],
                                YCoCg[3 * (k \div 4) + 2])[(k % 4) + 1])]

---------------------------------------------------------------------------
(* Input blocks.                                                           *)

\* How far the sampled channel values reach from 0, from 127/128 and from 255.
ByteSpan == 2

ByteSamples ==
    (0 .. ByteSpan) \cup ((127 - ByteSpan) .. (128 + ByteSpan))
                    \cup ((255 - ByteSpan) .. 255)

\* generate_rgba of the test program: pixel i is (start+i, start+i+1,
\* start+i+2, 0xFF), each stored as a byte.
generate_rgba(start) ==
    [k \in 0 .. 1023 |->
        IF k % 4 = 3 THEN 255 ELSE (start + (k \div 4) + (k % 4)) % 256]

\* A block with fixed red and green whose blue runs over every byte value;
\* the alpha of pixel i is a0 + i as a byte.
SweepBlock(r0, g0, a0) ==
    [k \in 0 .. 1023 |->
        CASE k % 4 = 0 -> r0
          [] k % 4 = 1 -> g0
          [] k % 4 = 2 -> k \div 4
          [] OTHER     -> (a0 + (k \div 4)) % 256]

ColorBlocks ==
    {SweepBlock(r0, g0, a0) : r0 \in ByteSamples, g0 \in ByteSamples, a0 \in {0, 1}}
        \cup {generate_rgba(s) : s \in ByteSamples}

---------------------------------------------------------------------------
(* The colour-space program: convert a block and convert it back.          *)

IdleCodec  == rgbOut = Nil /\ Y = Nil /\ Co = Nil /\ Cg = Nil
IdleTables == Qluma = Nil /\ Qchroma = Nil /\ quality = 0
IdleQuant  == Qbase = Nil /\ Q = Nil
IdleDct    == src = Nil /\ quant = Nil /\ coef = Nil /\ dst = Nil
IdleZigZag == natural = Nil /\ stream = Nil /\ restored = Nil
IdlePixels == rgba = Nil /\ alpha = Nil /\ rgbaOut = Nil
IdleColor  == ycocg = Nil
IdleTiler  ==
    /\ config = Nil /\ tile = Nil /\ tiles = Nil /\ index = 0 /\ ret = "none"
    /\ ub = FALSE /\ rects = Nil /\ touched = Nil
IdleSample == chroma = 0
IdleIoq    ==
    /\ ioq = Nil /\ ioRet = FALSE /\ ioOffset = 0 /\ pending = Nil /\ ioLast = Nil

InitColor ==
    /\ pc = "rgba"
    /\ rgba \in ColorBlocks
    /\ ycocg = Nil /\ alpha = Nil /\ rgbaOut = Nil
    /\ IdleCodec /\ IdleTables /\ IdleQuant /\ IdleDct /\ IdleZigZag
    /\ IdleTiler /\ IdleIoq /\ IdleSample

ToYCoCg ==
    /\ pc = "rgba"
    /\ LET out == rgba_to_ycocga(rgba)
       IN  ycocg' = out.ycocg /\ alpha' = out.alpha
    /\ pc' = "ycocg"
    /\ UNCHANGED <<rgba, rgbaOut, varsCodec, varsTables, varsQuant, varsDct, varsZigZag,
                   varsTiler, varsIoq,
                   varsSample>>

ToRgba ==
    /\ pc = "ycocg"
    /\ rgbaOut' = ycocga_to_rgba(ycocg, alpha)
    /\ pc' = "done"
    /\ UNCHANGED <<rgba, ycocg, alpha, varsCodec, varsTables, varsQuant, varsDct, varsZigZag,
                   varsTiler, varsIoq,
                   varsSample>>

NextColor == ToYCoCg \/ ToRgba

SpecColor == InitColor /\ [][NextColor]_vars

---------------------------------------------------------------------------
(* Claims about the colour-space conversion.                               *)

\* The (r, g, b) the inverse lifting computes for pixel i, before the clamp.
Unclamped(i) == YCoCgToPixel(ycocg[3 * i], ycocg[3 * i + 1], ycocg[3 * i + 2])

\* C1: converting a block with rgba_to_ycocga and back with ycocga_to_rgba
\* returns every R, G, B and A byte of the input, and no value the inverse
\* hands to clamp lies outside [0, 255].
C1_RoundTripExact ==
    pc = "done" =>
        /\ rgbaOut = rgba
        /\ \A i \in 0 .. 255 : \A c \in 1 .. 3 : Unclamped(i)[c] \in Bytes

\* C1 witness: a block has gone through both conversions and holds pixels
\* with negative Co and Cg and a non-trivial alpha.
C1_Witness ==
    /\ pc = "done"
    /\ \E i \in 0 .. 255 :
          /\ ycocg[3 * i + 1] < 0 /\ ycocg[3 * i + 1] % 2 = 1
          /\ ycocg[3 * i + 2] < 0 /\ ycocg[3 * i + 2] % 2 = 1
          /\ rgbaOut[4 * i + 3] \notin {0, 255}

\* The lifting steps computed without any 16-bit wrap.
ExactYCoCg(r, g, b) ==
    LET co == r - b
        t  == b + Sar(co, 1)
        cg == g - t
        y  == t + Sar(cg, 1)
    IN  [co |-> co, t |-> t, cg |-> cg, y |-> y]

\* C2: for 8-bit R, G, B the values written by rgba_to_ycocga satisfy
\* Y in [0,255], Co in [-255,255], Cg in [-255,255], and they are the values
\* of the lifting steps computed without wrap-around.
C2_YCoCgRange ==
    pc # "rgba" =>
        \A i \in 0 .. 255 :
            LET e == ExactYCoCg(rgba[4 * i], rgba[4 * i + 1], rgba[4 * i + 2])
            IN  /\ ycocg[3 * i]     \in 0 .. 255
                /\ ycocg[3 * i + 1] \in -255 .. 255
                /\ ycocg[3 * i + 2] \in -255 .. 255
                /\ e.t \in 0 .. 255
                /\ <<ycocg[3 * i], ycocg[3 * i + 1], ycocg[3 * i + 2]>>
                      = <<e.y, e.co, e.cg>>

\* C2 witness: a converted block that attains the extreme chroma values.
C2_Witness ==
    /\ pc = "ycocg"
    /\ \E i \in 0 .. 255 : ycocg[3 * i + 1] = -255
    /\ \E i \in 0 .. 255 : ycocg[3 * i + 2] = 255

---------------------------------------------------------------------------
(* Quantization tables.                                                    *)

\* A C array given by its initializer list.
FromSeq(s) == [i \in 0 .. Len(s) - 1 |-> s[i + 1]]

JPEGLumaQuant ==
    FromSeq(<< 16,  11,  12,  14,   12,  10,  16,  14,
               13,  14,  18,  17,   16,  19,  24,  40,
               26,  24,  22,  22,   24,  49,  35,  37,
               29,  40,  58,  51,   61,  60,  57,  51,
               56,  55,  64,  72,   92,  78,  64,  68,
               87,  69,  55,  56,   80, 109,  81,  87,
               95,  98, 103, 104,  103,  62,  77, 113,
              121, 112, 100, 120,   92, 101, 103,  99 >>)

JPEGChromaQuant ==
    FromSeq(<< 17,  18,  18,  24,   21,  24,  47,  26,
               26,  47,  99,  66,   56,  66,  99,  99,
               99,  99,  99,  99,   99,  99,  99,  99,
               99,  99,  99,  99,   99,  99,  99,  99,
               99,  99,  99,  99,   99,  99,  99,  99,
               99,  99,  99,  99,   99,  99,  99,  99,
               99,  99,  99,  99,   99,  99,  99,  99,
               99,  99,  99,  99,   99,  99,  99,  99 >>)

\* Mutation of ZigZag: the sixth and seventh entries both read 2, so that
\* index 3 is never visited.
ZigZag_Repeat ==
    FromSeq(<< 0,  1,  8, 16,  9,  2,  2, 10,
              17, 24, 32, 25, 18, 11,  4,  5,
              12, 19, 26, 33, 40, 48, 41, 34,
              27, 20, 13,  6,  7, 14, 21, 28,
              35, 42, 49, 56, 57, 50, 43, 36,
              29, 22, 15, 23, 30, 37, 44, 51,
              58, 59, 52, 45, 38, 31, 39, 46,
              53, 60, 61, 54, 47, 55, 62, 63>>)

ZigZag ==
    FromSeq(<<  0,   1,   8,  16,    9,   2,   3,  10,
               17,  24,  32,  25,   18,  11,   4,   5,
               12,  19,  26,  33,   40,  48,  41,  34,
               27,  20,  13,   6,    7,  14,  21,  28,
               35,  42,  49,  56,   57,  50,  43,  36,
               29,  22,  15,  23,   30,  37,  44,  51,
               58,  59,  52,  45,   38,  31,  39,  46,
               53,  60,  61,  54,   47,  55,  62,  63 >>)

\* Mutation of quantization_table: the table is not clamped from below.
quantization_table_NoFloor(Qb, qual) ==
    LET q1 == IF qual < 1 THEN 1 ELSE qual
        q2 == IF q1 > 100 THEN 100 ELSE q1
        q  == ToInt16(IF q2 < 50 THEN TruncDiv(5000, q2) ELSE 200 - q2 * 2)
    IN  [i \in 0 .. 63 |->
            ToInt16(qmin(ToInt16(TruncDiv(Qb[i] * q + 50, 100)), 255))]

\* Mutation of quantization_table: the upper limit of the quality mistyped.
quantization_table_WideCeiling(Qb, qual) ==
    LET q1 == IF qual < 1 THEN 1 ELSE qual
        q2 == IF q1 > 1000 THEN 1000 ELSE q1
        q  == ToInt16(IF q2 < 50 THEN TruncDiv(5000, q2) ELSE 200 - q2 * 2)
    IN  [i \in 0 .. 63 |->
            ToInt16(qmin(qmax(ToInt16(TruncDiv(Qb[i] * q + 50, 100)), 1), 255))]

\* quantization_table: scale a base table by the quality.  The scaled entry
\* is stored in an int16_t before it is clamped to [1, 255].
quantization_table(Qb, qual) ==
    LET q1 == IF qual < 1 THEN 1 ELSE qual
        q2 == IF q1 > 100 THEN 100 ELSE q1
        q  == ToInt16(IF q2 < 50 THEN TruncDiv(5000, q2) ELSE 200 - q2 * 2)
    IN  [i \in 0 .. 63 |->
            ToInt16(qmin(qmax(ToInt16(TruncDiv(Qb[i] * q + 50, 100)), 1), 255))]

quantization_table_luma(qual) == quantization_table(JPEGLumaQuant, qual)

quantization_table_chroma(qual) == quantization_table(JPEGChromaQuant, qual)

\* Mutation of scaled_qtable_int16: the tables are written in zig-zag order.
scaled_qtable_int16_ZigZag(Qb) ==
    [Qidct |-> [i \in 0 .. 63 |-> Qb[ZigZag[i]]],
     Qfdct |-> [i \in 0 .. 63 |-> Qb[ZigZag[i]]]]

\* scaled_qtable_int16: the multiplier table and the divisor table.
scaled_qtable_int16(Qb) ==
    [Qidct |-> [i \in 0 .. 63 |-> Qb[i]],
     Qfdct |-> [i \in 0 .. 63 |-> Qb[i]]]

\* quantization_table_scale, the int16_t overload.
quantization_table_scale(Qb) == scaled_qtable_int16(Qb)

\* qtables_encode, the int16_t overload: the FDCT tables; Qidct is discarded.
qtables_encode(qual) ==
    LET Qbase_y == quantization_table_luma(qual)
        Qbase_c == quantization_table_chroma(qual)
    IN  [Qluma   |-> quantization_table_scale(Qbase_y).Qfdct,
         Qchroma |-> quantization_table_scale(Qbase_c).Qfdct]

\* qtables_decode, the int16_t overload: the IDCT tables; Qfdct is discarded.
qtables_decode(qual) ==
    LET Qbase_y == quantization_table_luma(qual)
        Qbase_c == quantization_table_chroma(qual)
    IN  [Qluma   |-> quantization_table_scale(Qbase_y).Qidct,
         Qchroma |-> quantization_table_scale(Qbase_c).Qidct]

---------------------------------------------------------------------------
(* The quantization program: build a table from a base table, then the     *)
(* encoder's and the decoder's tables for the same quality.                *)

\* Base tables are the JPEG luma table multiplied by -TableScale .. TableScale.
TableScale == 6

\* Qualities run from QualityMargin below 1 to QualityMargin above 100.
QualityMargin == 3

INT_MIN == -2147483647 - 1

INT_MAX == 2147483647

INT16_MIN == -32768

INT16_MAX == 32767

Qualities == ((1 - QualityMargin) .. (100 + QualityMargin)) \cup {INT_MIN, INT_MAX}

BaseTables ==
    {[i \in 0 .. 63 |-> JPEGLumaQuant[i] * m] : m \in -TableScale .. TableScale}
        \cup {JPEGChromaQuant}
        \cup {[i \in 0 .. 63 |-> v] : v \in {INT16_MIN, INT16_MAX}}

InitQuant ==
    /\ pc = "start"
    /\ quality \in Qualities
    /\ Qbase \in BaseTables
    /\ Q = Nil /\ Qluma = Nil /\ Qchroma = Nil
    /\ IdlePixels /\ IdleColor /\ IdleCodec /\ IdleDct /\ IdleZigZag
    /\ IdleTiler /\ IdleIoq /\ IdleSample

QuantizationTable ==
    /\ pc = "start"
    /\ Q' = quantization_table(Qbase, quality)
    /\ pc' = "table"
    /\ UNCHANGED <<Qbase, varsTables, varsPixels, varsColor, varsCodec, varsDct, varsZigZag,
                   varsTiler, varsIoq,
                   varsSample>>

QtablesEncode ==
    /\ pc = "table"
    /\ LET t == qtables_encode(quality)
       IN  Qluma' = t.Qluma /\ Qchroma' = t.Qchroma
    /\ pc' = "encode"
    /\ UNCHANGED <<quality, varsQuant, varsPixels, varsColor, varsCodec, varsDct, varsZigZag,
                   varsTiler, varsIoq,
                   varsSample>>

QtablesDecode ==
    /\ pc = "encode"
    /\ LET t == qtables_decode(quality)
       IN  Qluma' = t.Qluma /\ Qchroma' = t.Qchroma
    /\ pc' = "decode"
    /\ UNCHANGED <<quality, varsQuant, varsPixels, varsColor, varsCodec, varsDct, varsZigZag,
                   varsTiler, varsIoq,
                   varsSample>>

NextQuant == QuantizationTable \/ QtablesEncode \/ QtablesDecode

SpecQuant == InitQuant /\ [][NextQuant]_vars

---------------------------------------------------------------------------
(* Claims about the quantization tables.                                   *)

\* C4: whatever the base table and the quality, every entry written by
\* quantization_table lies in [1, 255], and so does every entry of the tables
\* of qtables_encode and qtables_decode: no divisor of fdct8x8iq is zero.
C4_TableBounds ==
    /\ pc # "start" => \A i \in 0 .. 63 : Q[i] \in 1 .. 255
    /\ pc \in {"encode", "decode"} =>
          \A i \in 0 .. 63 : Qluma[i] \in 1 .. 255 /\ Qchroma[i] \in 1 .. 255

\* C4 witness: a table built at a quality outside [1, 100] from a base table
\* with negative entries, and the encoder's tables built at quality >= 100.
C4_Witness ==
    /\ pc = "encode"
    /\ quality > 100
    /\ \E i \in 0 .. 63 : Qbase[i] < 0

\* The table the claim C5 describes: the quality clamped to [1, 100], the
\* multiplier q, and the scaled entry clamped to [1, 255].
C5_Formula(Qb, qual) ==
    LET k == IF qual < 1 THEN 1 ELSE IF qual > 100 THEN 100 ELSE qual
        q == IF k < 50 THEN TruncDiv(5000, k) ELSE 200 - 2 * k
    IN  [i \in 0 .. 63 |->
            LET c == TruncDiv(Qb[i] * q + 50, 100)
            IN  IF c < 1 THEN 1 ELSE IF c > 255 THEN 255 ELSE c]

\* C5: for every base table of 16-bit entries and every quality,
\* quantization_table writes Q[i] = clamp((Qbase[i]*q + 50) / 100, 1, 255).
C5_TableFormula == pc # "start" => Q = C5_Formula(Qbase, quality)

\* C6: quantization_table with a quality <= 1 writes the table of quality 1,
\* and with a quality >= 100 the table of quality 100.
C6_QualityClamp ==
    pc # "start" =>
        /\ quality <= 1   => Q = quantization_table(Qbase, 1)
        /\ quality >= 100 => Q = quantization_table(Qbase, 100)

\* C6 witness: tables built below 1 and above 100 from a base table whose
\* entries the quality 1 and the quality 100 scale differently.
C6_Witness ==
    /\ pc = "table"
    /\ quality \notin 1 .. 100
    /\ quantization_table(Qbase, 1) # quantization_table(Qbase, 100)

---------------------------------------------------------------------------
(* The integer DCT kernels.  A 1-D pass takes its eight inputs as a tuple  *)
(* and returns its eight outputs as a tuple.                               *)

\* DCTSIZE: the side of a block.
DCTSIZE == 8

\* Row r of an 8x8 block, as a tuple.
RowOf(blk, r) ==
    <<blk[8 * r], blk[8 * r + 1], blk[8 * r + 2], blk[8 * r + 3],
      blk[8 * r + 4], blk[8 * r + 5], blk[8 * r + 6], blk[8 * r + 7]>>

\* Column c of an 8x8 block, as a tuple.
ColumnOf(blk, c) ==
    <<blk[c], blk[8 + c], blk[16 + c], blk[24 + c],
      blk[32 + c], blk[40 + c], blk[48 + c], blk[56 + c]>>

\* The 8x8 block whose rows are the given eight tuples.
FromRows(rows) == [i \in 0 .. 63 |-> rows[(i \div DCTSIZE) + 1][(i % DCTSIZE) + 1]]

\* The 8x8 block whose columns are the given eight tuples.
FromColumns(cols) == [i \in 0 .. 63 |-> cols[(i % DCTSIZE) + 1][(i \div DCTSIZE) + 1]]

\* fdct8x8i_base, first loop: one row of the input, written as int16_t.
fdct8x8i_rows(inp) ==
    LET i0 == inp[1]  i1 == inp[2]  i2 == inp[3]  i3 == inp[4]
        i4 == inp[5]  i5 == inp[6]  i6 == inp[7]  i7 == inp[8]
        a0 == i0 + i7
        a1 == i1 + i6
        a2 == i2 + i5
        a3 == i3 + i4
        a4 == i0 - i7
        a5 == i1 - i6
        a6 == i2 - i5
        a7 == i3 - i4
        b0 == a0 + a3
        b1 == a1 + a2
        b2 == a0 - a3
        b3 == a1 - a2
        c0 == b0 + b1
        c1 == b0 - b1
        c2 == b2 + Sar(b2, 2) + Sar(b3, 1)
        c3 == Sar(b2, 1) - b3 - Sar(b3, 2)
        b4 == Sar(a7, 2) + a4 + Sar(a4, 2) - Sar(a4, 4)
        b7 == Sar(a4, 2) - a7 - Sar(a7, 2) + Sar(a7, 4)
        b5 == a5 + a6 - Sar(a6, 2) - Sar(a6, 4)
        b6 == a6 - a5 + Sar(a5, 2) + Sar(a5, 4)
        c4 == b4 + b5
        c5 == b4 - b5
        c6 == b6 + b7
        c7 == b6 - b7
        d4 == c4
        d5 == c5 + c7
        d6 == c5 - c7
        d7 == c6
    IN  <<ToInt16(c0), ToInt16(d4), ToInt16(c2), ToInt16(d6),
          ToInt16(c1), ToInt16(d5), ToInt16(c3), ToInt16(d7)>>

\* Mutation of fdct8x8i_cols: c3 shifts b3 by one bit instead of two.
fdct8x8i_cols_SlipC3(inp) ==
    LET i0 == inp[1]  i1 == inp[2]  i2 == inp[3]  i3 == inp[4]
        i4 == inp[5]  i5 == inp[6]  i6 == inp[7]  i7 == inp[8]
        a0 == i0 + i7
        a1 == i1 + i6
        a2 == i2 + i5
        a3 == i3 + i4
        a4 == i0 - i7
        a5 == i1 - i6
        a6 == i2 - i5
        a7 == i3 - i4
        b0 == a0 + a3
        b1 == a1 + a2
        b2 == a0 - a3
        b3 == a1 - a2
        c0 == b0 + b1
        c1 == b0 - b1
        c2 == b2 + Sar(b2, 2) + Sar(b3, 1)
        c3 == Sar(b2, 1) - b3 - Sar(b3, 1)
        b4 == Sar(a7, 2) + a4 + Sar(a4, 2) - Sar(a4, 4)
        b7 == Sar(a4, 2) - a7 - Sar(a7, 2) + Sar(a7, 4)
        b5 == a5 + a6 - Sar(a6, 2) - Sar(a6, 4)
        b6 == a6 - a5 + Sar(a5, 2) + Sar(a5, 4)
        c4 == b4 + b5
        c5 == b4 - b5
        c6 == b6 + b7
        c7 == b6 - b7
        d4 == c4
        d5 == c5 + c7
        d6 == c5 - c7
        d7 == c6
    IN  <<ToInt16(c0), ToInt16(d4), ToInt16(c2), ToInt16(d6),
          ToInt16(c1), ToInt16(d5), ToInt16(c3), ToInt16(d7)>>

\* fdct8x8i_base, second loop: one column of dst, rewritten in place.
fdct8x8i_cols(inp) ==
    LET i0 == inp[1]  i1 == inp[2]  i2 == inp[3]  i3 == inp[4]
        i4 == inp[5]  i5 == inp[6]  i6 == inp[7]  i7 == inp[8]
        a0 == i0 + i7
        a1 == i1 + i6
        a2 == i2 + i5
        a3 == i3 + i4
        a4 == i0 - i7
        a5 == i1 - i6
        a6 == i2 - i5
        a7 == i3 - i4
        b0 == a0 + a3
        b1 == a1 + a2
        b2 == a0 - a3
        b3 == a1 - a2
        c0 == b0 + b1
        c1 == b0 - b1
        c2 == b2 + Sar(b2, 2) + Sar(b3, 1)
        c3 == Sar(b2, 1) - b3 - Sar(b3, 2)
        b4 == Sar(a7, 2) + a4 + Sar(a4, 2) - Sar(a4, 4)
        b7 == Sar(a4, 2) - a7 - Sar(a7, 2) + Sar(a7, 4)
        b5 == a5 + a6 - Sar(a6, 2) - Sar(a6, 4)
        b6 == a6 - a5 + Sar(a5, 2) + Sar(a5, 4)
        c4 == b4 + b5
        c5 == b4 - b5
        c6 == b6 + b7
        c7 == b6 - b7
        d4 == c4
        d5 == c5 + c7
        d6 == c5 - c7
        d7 == c6
    IN  <<ToInt16(c0), ToInt16(d4), ToInt16(c2), ToInt16(d6),
          ToInt16(c1), ToInt16(d5), ToInt16(c3), ToInt16(d7)>>

\* fdct8x8i_base, the first for loop: rows i .. 7 of src transformed in turn.
RECURSIVE fdct8x8i_row_loop(_, _)
fdct8x8i_row_loop(s, i) ==
    IF i = DCTSIZE THEN <<>>
    ELSE <<fdct8x8i_rows(RowOf(s, i))>> \o fdct8x8i_row_loop(s, i + 1)

\* fdct8x8i_base, the second for loop: columns i .. 7 of dst transformed in turn.
RECURSIVE fdct8x8i_col_loop(_, _)
fdct8x8i_col_loop(d, i) ==
    IF i = DCTSIZE THEN <<>>
    ELSE <<fdct8x8i_cols(ColumnOf(d, i))>> \o fdct8x8i_col_loop(d, i + 1)

\* fdct8x8i_base: the row pass into dst, then the column pass over dst.
fdct8x8i_base(s) ==
    LET rows == FromRows(fdct8x8i_row_loop(s, 0))
    IN  FromColumns(fdct8x8i_col_loop(rows, 0))

fdct8x8i(s) == fdct8x8i_base(s)

\* fdct8x8iq_base, first loop: one row of the input, written as int16_t.
fdct8x8iq_rows(inp) ==
    LET i0 == inp[1]  i1 == inp[2]  i2 == inp[3]  i3 == inp[4]
        i4 == inp[5]  i5 == inp[6]  i6 == inp[7]  i7 == inp[8]
        a0 == i0 + i7
        a1 == i1 + i6
        a2 == i2 + i5
        a3 == i3 + i4
        a4 == i0 - i7
        a5 == i1 - i6
        a6 == i2 - i5
        a7 == i3 - i4
        b0 == a0 + a3
        b1 == a1 + a2
        b2 == a0 - a3
        b3 == a1 - a2
        c0 == b0 + b1
        c1 == b0 - b1
        c2 == b2 + Sar(b2, 2) + Sar(b3, 1)
        c3 == Sar(b2, 1) - b3 - Sar(b3, 2)
        b4 == Sar(a7, 2) + a4 + Sar(a4, 2) - Sar(a4, 4)
        b7 == Sar(a4, 2) - a7 - Sar(a7, 2) + Sar(a7, 4)
        b5 == a5 + a6 - Sar(a6, 2) - Sar(a6, 4)
        b6 == a6 - a5 + Sar(a5, 2) + Sar(a5, 4)
        c4 == b4 + b5
        c5 == b4 - b5
        c6 == b6 + b7
        c7 == b6 - b7
        d4 == c4
        d5 == c5 + c7
        d6 == c5 - c7
        d7 == c6
    IN  <<ToInt16(c0), ToInt16(d4), ToInt16(c2), ToInt16(d6),
          ToInt16(c1), ToInt16(d5), ToInt16(c3), ToInt16(d7)>>

\* fdct8x8iq_base, second loop: one column of dst, rewritten in place.
fdct8x8iq_cols(inp) ==
    LET i0 == inp[1]  i1 == inp[2]  i2 == inp[3]  i3 == inp[4]
        i4 == inp[5]  i5 == inp[6]  i6 == inp[7]  i7 == inp[8]
        a0 == i0 + i7
        a1 == i1 + i6
        a2 == i2 + i5
        a3 == i3 + i4
        a4 == i0 - i7
        a5 == i1 - i6
        a6 == i2 - i5
        a7 == i3 - i4
        b0 == a0 + a3
        b1 == a1 + a2
        b2 == a0 - a3
        b3 == a1 - a2
        c0 == b0 + b1
        c1 == b0 - b1
        c2 == b2 + Sar(b2, 2) + Sar(b3, 1)
        c3 == Sar(b2, 1) - b3 - Sar(b3, 2)
        b4 == Sar(a7, 2) + a4 + Sar(a4, 2) - Sar(a4, 4)
        b7 == Sar(a4, 2) - a7 - Sar(a7, 2) + Sar(a7, 4)
        b5 == a5 + a6 - Sar(a6, 2) - Sar(a6, 4)
        b6 == a6 - a5 + Sar(a5, 2) + Sar(a5, 4)
        c4 == b4 + b5
        c5 == b4 - b5
        c6 == b6 + b7
        c7 == b6 - b7
        d4 == c4
        d5 == c5 + c7
        d6 == c5 - c7
        d7 == c6
    IN  <<ToInt16(c0), ToInt16(d4), ToInt16(c2), ToInt16(d6),
          ToInt16(c1), ToInt16(d5), ToInt16(c3), ToInt16(d7)>>

\* fdct8x8iq_base, the first for loop: rows i .. 7 of src transformed in turn.
RECURSIVE fdct8x8iq_row_loop(_, _)
fdct8x8iq_row_loop(s, i) ==
    IF i = DCTSIZE THEN <<>>
    ELSE <<fdct8x8iq_rows(RowOf(s, i))>> \o fdct8x8iq_row_loop(s, i + 1)

\* fdct8x8iq_base, the second for loop: columns i .. 7 of dst transformed in turn.
RECURSIVE fdct8x8iq_col_loop(_, _)
fdct8x8iq_col_loop(d, i) ==
    IF i = DCTSIZE THEN <<>>
    ELSE <<fdct8x8iq_cols(ColumnOf(d, i))>> \o fdct8x8iq_col_loop(d, i + 1)

\* fdct8x8iq_base: the two passes, then every coefficient divided by its
\* table entry (dst[i] /= quant[i], truncating, stored as int16_t).
fdct8x8iq_base(s, qt) ==
    LET rows == FromRows(fdct8x8iq_row_loop(s, 0))
        cols == FromColumns(fdct8x8iq_col_loop(rows, 0))
    IN  [i \in 0 .. 63 |-> ToInt16(TruncDiv(cols[i], qt[i]))]

fdct8x8iq(s, qt) == fdct8x8iq_base(s, qt)

\* idct8x8i_base, the body of either loop: the inverse butterfly of eight
\* int32_t values, the eight sums before they are stored.
idct8x8i_butterfly(inp) ==
    LET c0 == inp[1]  d4 == inp[2]  c2 == inp[3]  d6 == inp[4]
        c1 == inp[5]  d5 == inp[6]  c3 == inp[7]  d7 == inp[8]
        c4 == d4
        c5 == d5 + d6
        c7 == d5 - d6
        c6 == d7
        b4 == c4 + c5
        b5 == c4 - c5
        b6 == c6 + c7
        b7 == c6 - c7
        b0 == c0 + c1
        b1 == c0 - c1
        b2 == c2 + Sar(c2, 2) + Sar(c3, 1)
        b3 == Sar(c2, 1) - c3 - Sar(c3, 2)
        a4 == Sar(b7, 2) + b4 + Sar(b4, 2) - Sar(b4, 4)
        a7 == Sar(b4, 2) - b7 - Sar(b7, 2) + Sar(b7, 4)
        a5 == b5 - b6 + Sar(b6, 2) + Sar(b6, 4)
        a6 == b6 + b5 - Sar(b5, 2) - Sar(b5, 4)
        a0 == b0 + b2
        a3 == b0 - b2
        a1 == b1 + b3
        a2 == b1 - b3
    IN  <<a0 + a4, a1 + a5, a2 + a6, a3 + a7, a3 - a7, a2 - a6, a1 - a5, a0 - a4>>

\* idct8x8id_base, first loop: one column of dequantized coefficients into
\* the int32_t workspace.
idct8x8id_cols(inp) ==
    LET c0 == inp[1]  d4 == inp[2]  c2 == inp[3]  d6 == inp[4]
        c1 == inp[5]  d5 == inp[6]  c3 == inp[7]  d7 == inp[8]
        c4 == d4
        c5 == d5 + d6
        c7 == d5 - d6
        c6 == d7
        b4 == c4 + c5
        b5 == c4 - c5
        b6 == c6 + c7
        b7 == c6 - c7
        b0 == c0 + c1
        b1 == c0 - c1
        b2 == c2 + Sar(c2, 2) + Sar(c3, 1)
        b3 == Sar(c2, 1) - c3 - Sar(c3, 2)
        a4 == Sar(b7, 2) + b4 + Sar(b4, 2) - Sar(b4, 4)
        a7 == Sar(b4, 2) - b7 - Sar(b7, 2) + Sar(b7, 4)
        a5 == b5 - b6 + Sar(b6, 2) + Sar(b6, 4)
        a6 == b6 + b5 - Sar(b5, 2) - Sar(b5, 4)
        a0 == b0 + b2
        a3 == b0 - b2
        a1 == b1 + b3
        a2 == b1 - b3
    IN  <<a0 + a4, a1 + a5, a2 + a6, a3 + a7, a3 - a7, a2 - a6, a1 - a5, a0 - a4>>

\* idct8x8id_base, second loop: one row of the workspace, each sum shifted
\* right by 6 and written as int16_t.
idct8x8id_rows(inp) ==
    LET c0 == inp[1]  d4 == inp[2]  c2 == inp[3]  d6 == inp[4]
        c1 == inp[5]  d5 == inp[6]  c3 == inp[7]  d7 == inp[8]
        c4 == d4
        c5 == d5 + d6
        c7 == d5 - d6
        c6 == d7
        b4 == c4 + c5
        b5 == c4 - c5
        b6 == c6 + c7
        b7 == c6 - c7
        b0 == c0 + c1
        b1 == c0 - c1
        b2 == c2 + Sar(c2, 2) + Sar(c3, 1)
        b3 == Sar(c2, 1) - c3 - Sar(c3, 2)
        a4 == Sar(b7, 2) + b4 + Sar(b4, 2) - Sar(b4, 4)
        a7 == Sar(b4, 2) - b7 - Sar(b7, 2) + Sar(b7, 4)
        a5 == b5 - b6 + Sar(b6, 2) + Sar(b6, 4)
        a6 == b6 + b5 - Sar(b5, 2) - Sar(b5, 4)
        a0 == b0 + b2
        a3 == b0 - b2
        a1 == b1 + b3
        a2 == b1 - b3
    IN  <<ToInt16(Sar(a0 + a4, 6)), ToInt16(Sar(a1 + a5, 6)),
          ToInt16(Sar(a2 + a6, 6)), ToInt16(Sar(a3 + a7, 6)),
          ToInt16(Sar(a3 - a7, 6)), ToInt16(Sar(a2 - a6, 6)),
          ToInt16(Sar(a1 - a5, 6)), ToInt16(Sar(a0 - a4, 6))>>

\* COLUMNID without the table: the coefficient alone.
COLUMNID_Unscaled(s, qt) == [i \in 0 .. 63 |-> s[i]]

\* COLUMNID: a coefficient times its table entry, as it is loaded.
COLUMNID(s, qt) == [i \in 0 .. 63 |-> s[i] * qt[i]]

\* idct8x8id_base, the first for loop: columns i .. 7 of the dequantized input.
RECURSIVE idct8x8id_col_loop(_, _)
idct8x8id_col_loop(d, i) ==
    IF i = DCTSIZE THEN <<>>
    ELSE <<idct8x8id_cols(ColumnOf(d, i))>> \o idct8x8id_col_loop(d, i + 1)

\* idct8x8id_base, the second for loop: rows i .. 7 of the workspace.
RECURSIVE idct8x8id_row_loop(_, _)
idct8x8id_row_loop(w, i) ==
    IF i = DCTSIZE THEN <<>>
    ELSE <<idct8x8id_rows(RowOf(w, i))>> \o idct8x8id_row_loop(w, i + 1)

\* idct8x8id_base with the final sums shifted right by 5.
idct8x8id_base_Descale32(s, qt) ==
    LET deq  == COLUMNID(s, qt)
        wsp  == FromColumns([i \in 1 .. 8 |-> idct8x8i_butterfly(ColumnOf(deq, i - 1))])
        sums == FromRows([i \in 1 .. 8 |-> idct8x8i_butterfly(RowOf(wsp, i - 1))])
    IN  [n \in 0 .. 63 |-> ToInt16(Sar(sums[n], 5))]

\* idct8x8id_base: dequantize, column pass, row pass with the descale by 64.
idct8x8id_base(s, qt) ==
    LET deq == COLUMNID(s, qt)
        wsp == FromColumns(idct8x8id_col_loop(deq, 0))
    IN  FromRows(idct8x8id_row_loop(wsp, 0))

idct8x8id(s, qt) == idct8x8id_base(s, qt)

---------------------------------------------------------------------------
(* The DCT program: transform a sample block forward (with and without a   *)
(* table) and transform the quantized coefficients back.                   *)

\* Sample values reach LevelSpan from 0 and from the ends of [-255, 255].
LevelSpan == 1

\* The largest slope of a ramp block that keeps its samples in [-255, 255].
MaxSlope == 255 \div (2 * (DCTSIZE - 1))

Levels ==
    (-255 .. (-255 + LevelSpan)) \cup (-LevelSpan .. LevelSpan)
                                 \cup ((255 - LevelSpan) .. 255)

\* A block with one sample of value v at position p on a flat background.
ImpulseBlock(p, v, bg) == [i \in 0 .. 63 |-> IF i = p THEN v ELSE bg]

\* A block that rises by dx along each row and by dy along each column.
RampBlock(dx, dy) == [i \in 0 .. 63 |-> dx * (i % DCTSIZE) + dy * (i \div DCTSIZE)]

\* The luma quadrant (0, 0) of the test program's block generate_rgba(s).
TestLumaBlock(s) ==
    [i \in 0 .. 63 |->
        LET k == 16 * (i \div DCTSIZE) + (i % DCTSIZE)
        IN  PixelToYCoCg((s + k) % 256, (s + k + 1) % 256, (s + k + 2) % 256)[1]]

\* The blocks whose 64 samples are equal, for every sample value.
ConstantBlocks == {[i \in 0 .. 63 |-> c] : c \in -255 .. 255}

SampleBlocks ==
    {ImpulseBlock(p, v, 0) : p \in 0 .. 63, v \in Levels}
        \cup {ImpulseBlock(0, v, v) : v \in Levels}
        \cup ConstantBlocks
        \cup {RampBlock(dx, dy) : dx \in {-MaxSlope, -1, 0, 1, MaxSlope},
                                  dy \in {-MaxSlope, -1, 0, 1, MaxSlope}}
        \cup {TestLumaBlock(s) : s \in 0 .. LevelSpan}

\* The table with every entry 1 (what quality 100 yields).
AllOnes == [i \in 0 .. 63 |-> 1]

InitDct ==
    /\ pc = "src"
    /\ src \in SampleBlocks
    /\ quant \in {AllOnes, quantization_table_luma(50)}
    /\ coef = Nil /\ dst = Nil
    /\ IdlePixels /\ IdleColor /\ IdleCodec /\ IdleTables /\ IdleQuant /\ IdleZigZag
    /\ IdleTiler /\ IdleIoq /\ IdleSample

Fdct8x8i ==
    /\ pc = "src"
    /\ coef' = fdct8x8i(src)
    /\ pc' = "fdct"
    /\ UNCHANGED <<src, quant, dst, varsPixels, varsColor, varsCodec, varsTables,
                   varsQuant, varsZigZag,
                   varsTiler, varsIoq,
                   varsSample>>

Fdct8x8iq ==
    /\ pc = "src"
    /\ coef' = fdct8x8iq(src, quant)
    /\ pc' = "fdctq"
    /\ UNCHANGED <<src, quant, dst, varsPixels, varsColor, varsCodec, varsTables,
                   varsQuant, varsZigZag,
                   varsTiler, varsIoq,
                   varsSample>>

Idct8x8id ==
    /\ pc = "fdctq"
    /\ dst' = idct8x8id(coef, quant)
    /\ pc' = "idctd"
    /\ UNCHANGED <<src, quant, coef, varsPixels, varsColor, varsCodec, varsTables,
                   varsQuant, varsZigZag,
                   varsTiler, varsIoq,
                   varsSample>>

NextDct == Fdct8x8i \/ Fdct8x8iq \/ Idct8x8id

SpecDct == InitDct /\ [][NextDct]_vars

---------------------------------------------------------------------------
(* Claims about the integer DCT.                                           *)

Abs(x) == IF x < 0 THEN -x ELSE x

\* C7: with the all-ones table, idct8x8id(fdct8x8iq(x)) is within 1 of x at
\* every interior sample position (rows and columns 1..6).
C7_RoundTripWithinOne ==
    (pc = "idctd" /\ quant = AllOnes) =>
        \A r \in 1 .. 6 : \A c \in 1 .. 6 :
            Abs(dst[8 * r + c] - src[8 * r + c]) <= 1

\* The 1-D butterfly as the specification writes it, on unbounded integers.
C8_Butterfly(inp) ==
    LET a0 == inp[1] + inp[8]   a1 == inp[2] + inp[7]
        a2 == inp[3] + inp[6]   a3 == inp[4] + inp[5]
        a4 == inp[1] - inp[8]   a5 == inp[2] - inp[7]
        a6 == inp[3] - inp[6]   a7 == inp[4] - inp[5]
        b0 == a0 + a3   b1 == a1 + a2   b2 == a0 - a3   b3 == a1 - a2
        c0 == b0 + b1   c1 == b0 - b1
        c2 == b2 + (b2 \div 4) + (b3 \div 2)
        c3 == (b2 \div 2) - b3 - (b3 \div 4)
        b4 == (a7 \div 4) + a4 + (a4 \div 4) - (a4 \div 16)
        b7 == (a4 \div 4) - a7 - (a7 \div 4) + (a7 \div 16)
        b5 == a5 + a6 - (a6 \div 4) - (a6 \div 16)
        b6 == a6 - a5 + (a5 \div 4) + (a5 \div 16)
        c4 == b4 + b5   c5 == b4 - b5   c6 == b6 + b7   c7 == b6 - b7
        d4 == c4   d5 == c5 + c7   d6 == c5 - c7   d7 == c6
    IN  <<c0, d4, c2, d6, c1, d5, c3, d7>>

\* The butterfly applied to each row and then to each column, each result
\* stored as int16_t.
C8_Reference(s) ==
    LET P(v)  == [k \in 1 .. 8 |-> ToInt16(C8_Butterfly(v)[k])]
        rows  == FromRows([r \in 1 .. 8 |-> P(RowOf(s, r - 1))])
    IN  FromColumns([c \in 1 .. 8 |-> P(ColumnOf(rows, c - 1))])

\* C8: fdct8x8i is the specified butterfly applied to the 8 rows and then to
\* the 8 columns, and its row pass and its column pass compute the same
\* function of their 8 inputs.
C8_FdctIsButterfly ==
    pc = "fdct" =>
        /\ coef = C8_Reference(src)
        /\ \A k \in 0 .. 7 :
              /\ fdct8x8i_rows(RowOf(src, k)) = fdct8x8i_cols(RowOf(src, k))
              /\ fdct8x8i_rows(ColumnOf(src, k)) = fdct8x8i_cols(ColumnOf(src, k))
              /\ fdct8x8i_rows(RowOf(coef, k)) = fdct8x8i_cols(RowOf(coef, k))

\* C8 witness: the transform of a block with negative samples whose
\* coefficients include odd negative values (where the shifts round down).
C8_Witness ==
    /\ pc = "fdct"
    /\ \E i \in 0 .. 63 : src[i] < 0
    /\ \E i \in 0 .. 63 : coef[i] < 0 /\ coef[i] % 2 = 1
    /\ \E i \in 0 .. 63 : coef[i] > 255

\* The idct8x8i butterfly over the columns and then over the rows of a block
\* of 32-bit values, nothing descaled between or after the passes.
C23_TwoPasses(blk) ==
    LET wsp == FromColumns([i \in 1 .. 8 |-> idct8x8i_butterfly(ColumnOf(blk, i - 1))])
    IN  FromRows([i \in 1 .. 8 |-> idct8x8i_butterfly(RowOf(wsp, i - 1))])

\* The final sums of the coefficients in coef times the table in quant.
C23_Sums == C23_TwoPasses([i \in 0 .. 63 |-> coef[i] * quant[i]])

C30_ConstantBlockExact ==
    (/\ pc \in {"fdctq", "idctd"} /\ quant = AllOnes
     /\ src[0] \in -255 .. 255
     /\ \A i \in 0 .. 63 : src[i] = src[0]) =>
        /\ coef[0] = 64 * src[0]
        /\ \A i \in 1 .. 63 : coef[i] = 0
        /\ pc = "idctd" => \A i \in 0 .. 63 : dst[i] = src[0]

\* C30 witness: the constant block of -255 has gone through both transforms
\* with the all-ones table.
C30_Witness ==
    /\ pc = "idctd" /\ quant = AllOnes
    /\ \A i \in 0 .. 63 : src[i] = -255
    /\ coef[0] = -16320
    /\ dst[63] = -255

---------------------------------------------------------------------------
(* The block sampler and the 16x16 encoder and decoder.                    *)

\* subblock: the 8x8 quadrant (x, y) of one channel of the 16x16 block.
subblock(YCoCg, x, y, channel) ==
    [k \in 0 .. 63 |->
        YCoCg[((y * 8) + (k \div 8)) * 48 + ((x * 24) + channel) + (k % 8) * 3]]

\* subsample with the rounding bias of its earlier revision: 0 and 2 by
\* turns along a row, changing places from row to row.
subsample_Biased(YCoCg, channel) ==
    [k \in 0 .. 63 |->
        LET src1 == (2 * (k \div 8) + 0) * 48 + channel
            src2 == (2 * (k \div 8) + 1) * 48 + channel
            j    == 2 * (k % 8)
            bias == IF ((k % 8) + (k \div 8)) % 2 = 0 THEN 0 ELSE 2
        IN  ToInt16(Sar(YCoCg[src1 + j * 3] + YCoCg[src1 + (j + 1) * 3]
                        + YCoCg[src2 + j * 3] + YCoCg[src2 + (j + 1) * 3] + bias, 2))]

\* subsample: every 2x2 group of one channel summed and shifted right by 2.
subsample(YCoCg, channel) ==
    [k \in 0 .. 63 |->
        LET src1 == (2 * (k \div 8) + 0) * 48 + channel
            src2 == (2 * (k \div 8) + 1) * 48 + channel
            j    == 2 * (k % 8)
        IN  ToInt16(Sar(YCoCg[src1 + j * 3] + YCoCg[src1 + (j + 1) * 3]
                        + YCoCg[src2 + j * 3] + YCoCg[src2 + (j + 1) * 3], 2))]

\* merge_blocks with the packed blocks placed column by column: the second
\* block below the first, the third to its right.
merge_blocks_ColumnMajor(s) ==
    [k \in 0 .. 255 |->
        LET row == k \div 16
            col == k % 16
        IN  IF row < 8
            THEN IF col < 8 THEN s[0 + row * 8 + col]
                            ELSE s[128 + row * 8 + (col - 8)]
            ELSE IF col < 8 THEN s[64 + (row - 8) * 8 + col]
                            ELSE s[192 + (row - 8) * 8 + (col - 8)]]

\* merge_blocks: four packed 8x8 blocks into one 16x16 block.
merge_blocks(s) ==
    [k \in 0 .. 255 |->
        LET row == k \div 16
            col == k % 16
        IN  IF row < 8
            THEN IF col < 8 THEN s[0 + row * 8 + col]
                            ELSE s[64 + row * 8 + (col - 8)]
            ELSE IF col < 8 THEN s[128 + (row - 8) * 8 + col]
                            ELSE s[192 + (row - 8) * 8 + (col - 8)]]

\* scale_block: each sample of an 8x8 block becomes a 2x2 group.
scale_block(s) == [k \in 0 .. 255 |-> s[((k \div 16) \div 2) * 8 + ((k % 16) \div 2)]]

\* &buf[at]: the 64 elements of buf that start at index at.
Block64(buf, at) == [i \in 0 .. 63 |-> buf[at + i]]

\* Mutation of encode16x16i: the alpha plane is taken from the blue bytes.
encode16x16i_AlphaFromBlue(Ql, Qc, RGBA) ==
    LET conv == rgba_to_ycocga(RGBA)
        b00  == fdct8x8iq_base(subblock(conv.ycocg, 0, 0, 0), Ql)
        b10  == fdct8x8iq_base(subblock(conv.ycocg, 1, 0, 0), Ql)
        b01  == fdct8x8iq_base(subblock(conv.ycocg, 0, 1, 0), Ql)
        b11  == fdct8x8iq_base(subblock(conv.ycocg, 1, 1, 0), Ql)
    IN  [Y  |-> [k \in 0 .. 255 |->
                    CASE k < 64  -> b00[k]
                      [] k < 128 -> b10[k - 64]
                      [] k < 192 -> b01[k - 128]
                      [] OTHER   -> b11[k - 192]],
         Co |-> fdct8x8iq_base(subsample(conv.ycocg, 1), Qc),
         Cg |-> fdct8x8iq_base(subsample(conv.ycocg, 2), Qc),
         A  |-> [i \in 0 .. 255 |-> RGBA[4 * i + 2]]]

\* encode16x16i with the luma quadrants stored column by column: top-left,
\* bottom-left, top-right, bottom-right.
encode16x16i_ColumnMajor(Ql, Qc, RGBA) ==
    LET conv == rgba_to_ycocga(RGBA)
        b00  == fdct8x8iq_base(subblock(conv.ycocg, 0, 0, 0), Ql)
        b10  == fdct8x8iq_base(subblock(conv.ycocg, 1, 0, 0), Ql)
        b01  == fdct8x8iq_base(subblock(conv.ycocg, 0, 1, 0), Ql)
        b11  == fdct8x8iq_base(subblock(conv.ycocg, 1, 1, 0), Ql)
    IN  [Y  |-> [k \in 0 .. 255 |->
                    CASE k < 64  -> b00[k]
                      [] k < 128 -> b01[k - 64]
                      [] k < 192 -> b10[k - 128]
                      [] OTHER   -> b11[k - 192]],
         Co |-> fdct8x8iq_base(subsample(conv.ycocg, 1), Qc),
         Cg |-> fdct8x8iq_base(subsample(conv.ycocg, 2), Qc),
         A  |-> conv.alpha]

\* encode16x16i: colour conversion, four luma quadrants and two subsampled
\* chroma blocks through fdct8x8iq_base; the alpha plane as separated by
\* rgba_to_ycocga.
encode16x16i(Ql, Qc, RGBA) ==
    LET conv == rgba_to_ycocga(RGBA)
        b00  == fdct8x8iq_base(subblock(conv.ycocg, 0, 0, 0), Ql)
        b10  == fdct8x8iq_base(subblock(conv.ycocg, 1, 0, 0), Ql)
        b01  == fdct8x8iq_base(subblock(conv.ycocg, 0, 1, 0), Ql)
        b11  == fdct8x8iq_base(subblock(conv.ycocg, 1, 1, 0), Ql)
    IN  [Y  |-> [k \in 0 .. 255 |->
                    CASE k < 64  -> b00[k]
                      [] k < 128 -> b10[k - 64]
                      [] k < 192 -> b01[k - 128]
                      [] OTHER   -> b11[k - 192]],
         Co |-> fdct8x8iq_base(subsample(conv.ycocg, 1), Qc),
         Cg |-> fdct8x8iq_base(subsample(conv.ycocg, 2), Qc),
         A  |-> conv.alpha]

\* The loop body of the decoders: the inverse lifting of one pixel from
\* int32_t samples, each of t, g, b, r stored as int16_t.
DecodePixel(y, co, cg) ==
    LET t == ToInt16(y - Sar(cg, 1))
        g == ToInt16(cg + t)
        b == ToInt16(t - Sar(co, 1))
        r == ToInt16(b + co)
    IN  <<clamp(r), clamp(g), clamp(b)>>

\* The decoders' common part: the merged luma and the scaled chroma planes.
DecodePlanes(Yq, Coq, Cgq, Ql, Qc) ==
    LET d0 == idct8x8id_base(Block64(Yq, 0), Ql)
        d1 == idct8x8id_base(Block64(Yq, 64), Ql)
        d2 == idct8x8id_base(Block64(Yq, 128), Ql)
        d3 == idct8x8id_base(Block64(Yq, 192), Ql)
        Yd == [k \in 0 .. 255 |->
                  CASE k < 64  -> d0[k]
                    [] k < 128 -> d1[k - 64]
                    [] k < 192 -> d2[k - 128]
                    [] OTHER   -> d3[k - 192]]
    IN  [Ym |-> merge_blocks(Yd),
         Os |-> scale_block(idct8x8id_base(Coq, Qc)),
         Gs |-> scale_block(idct8x8id_base(Cgq, Qc))]

\* decode16x16i_rgba: four bytes a pixel, the fourth copied from A.
decode16x16i_rgba(Yq, Coq, Cgq, A, Ql, Qc) ==
    LET pl == DecodePlanes(Yq, Coq, Cgq, Ql, Qc)
    IN  [k \in 0 .. 1023 |->
            IF k % 4 = 3
            THEN A[k \div 4]
            ELSE DecodePixel(pl.Ym[k \div 4], pl.Os[k \div 4], pl.Gs[k \div 4])[(k % 4) + 1]]

\* decode16x16i_rgb, its loop over the pixels: one pixel from its Y, Co, Cg.
DecodePixelRgb(y, co, cg) ==
    LET t == ToInt16(y - Sar(cg, 1))
        g == ToInt16(cg + t)
        b == ToInt16(t - Sar(co, 1))
        r == ToInt16(b + co)
    IN  <<clamp(r), clamp(g), clamp(b)>>

\* decode16x16i_rgb storing blue, green, red.
decode16x16i_rgb_BlueFirst(Yq, Coq, Cgq, Ql, Qc) ==
    LET pl == DecodePlanes(Yq, Coq, Cgq, Ql, Qc)
    IN  [k \in 0 .. 767 |->
            DecodePixelRgb(pl.Ym[k \div 3], pl.Os[k \div 3], pl.Gs[k \div 3])[3 - (k % 3)]]

\* decode16x16i_rgb: three bytes a pixel.
decode16x16i_rgb(Yq, Coq, Cgq, Ql, Qc) ==
    LET pl == DecodePlanes(Yq, Coq, Cgq, Ql, Qc)
    IN  [k \in 0 .. 767 |->
            DecodePixelRgb(pl.Ym[k \div 3], pl.Os[k \div 3], pl.Gs[k \div 3])[(k % 3) + 1]]

---------------------------------------------------------------------------
(* The block program (transform_block): tables, encode, tables, decode.    *)

\* Qualities of the block program: the ends, the middle, the test program's
\* own 10, and QualitySteps values spread between them.
QualitySteps == 2

BlockQualities ==
    {1, 10, 50, 100} \cup {(100 * k) \div (QualitySteps + 1) : k \in 1 .. QualitySteps}

BlockInputs ==
    {generate_rgba(s) : s \in ByteSamples}
        \cup {SweepBlock(r0, g0, a0) : r0 \in {0, 255}, g0 \in {0, 128, 255}, a0 \in {0, 1}}

InitBlock ==
    /\ pc = "start"
    /\ rgba \in BlockInputs
    /\ quality \in BlockQualities
    /\ alpha = Nil /\ rgbaOut = Nil /\ rgbOut = Nil
    /\ Y = Nil /\ Co = Nil /\ Cg = Nil
    /\ Qluma = Nil /\ Qchroma = Nil
    /\ IdleColor /\ IdleQuant /\ IdleDct /\ IdleZigZag
    /\ IdleTiler /\ IdleIoq /\ IdleSample

BlockTablesEncode ==
    /\ pc = "start"
    /\ LET t == qtables_encode(quality)
       IN  Qluma' = t.Qluma /\ Qchroma' = t.Qchroma
    /\ pc' = "qenc"
    /\ UNCHANGED <<quality, varsPixels, varsCodec, varsColor, varsQuant, varsDct, varsZigZag,
                   varsTiler, varsIoq,
                   varsSample>>

BlockEncode ==
    /\ pc = "qenc"
    /\ LET e == encode16x16i(Qluma, Qchroma, rgba)
       IN  Y' = e.Y /\ Co' = e.Co /\ Cg' = e.Cg /\ alpha' = e.A
    /\ pc' = "encoded"
    /\ UNCHANGED <<rgba, rgbaOut, rgbOut, varsTables, varsColor, varsQuant, varsDct, varsZigZag,
                   varsTiler, varsIoq,
                   varsSample>>

BlockTablesDecode ==
    /\ pc = "encoded"
    /\ LET t == qtables_decode(quality)
       IN  Qluma' = t.Qluma /\ Qchroma' = t.Qchroma
    /\ pc' = "qdec"
    /\ UNCHANGED <<quality, varsPixels, varsCodec, varsColor, varsQuant, varsDct, varsZigZag,
                   varsTiler, varsIoq,
                   varsSample>>

BlockDecodeRgba ==
    /\ pc = "qdec"
    /\ rgbaOut' = decode16x16i_rgba(Y, Co, Cg, alpha, Qluma, Qchroma)
    /\ pc' = "decoded"
    /\ UNCHANGED <<rgba, alpha, varsCodec, varsTables, varsColor, varsQuant, varsDct, varsZigZag,
                   varsTiler, varsIoq,
                   varsSample>>

\* The same coefficients and tables given to decode16x16i_rgb.
BlockDecodeRgb ==
    /\ pc = "decoded"
    /\ rgbOut' = decode16x16i_rgb(Y, Co, Cg, Qluma, Qchroma)
    /\ pc' = "decoded_rgb"
    /\ UNCHANGED <<Y, Co, Cg, varsPixels, varsTables, varsColor, varsQuant, varsDct,
                   varsZigZag, varsTiler, varsIoq,
                   varsSample>>

NextBlock ==
    \/ BlockTablesEncode \/ BlockEncode \/ BlockTablesDecode \/ BlockDecodeRgba
    \/ BlockDecodeRgb

SpecBlock == InitBlock /\ [][NextBlock]_vars

---------------------------------------------------------------------------
(* Claims about the encoder and the decoder.                               *)

\* Alpha planes other than the one the encoder produced.
OtherAlphas == {[i \in 0 .. 255 |-> 0], [i \in 0 .. 255 |-> (3 * i + 7) % 256]}

\* C3: encode16x16i writes A[i] = RGBA[4i+3] for all 256 pixels whatever the
\* tables; decode16x16i_rgba writes RGBA[4i+3] = A[i], so alpha survives encode
\* and decode exactly at every quality; and the decoded R, G, B bytes are the
\* same whatever alpha plane the decoder is given.
C3_AlphaUntouched ==
    /\ pc \in {"encoded", "qdec", "decoded"} =>
          \A i \in 0 .. 255 : alpha[i] = rgba[4 * i + 3]
    /\ pc = "decoded" =>
          /\ \A i \in 0 .. 255 :
                rgbaOut[4 * i + 3] = alpha[i] /\ rgbaOut[4 * i + 3] = rgba[4 * i + 3]
          /\ \A a \in OtherAlphas :
                LET other == decode16x16i_rgba(Y, Co, Cg, a, Qluma, Qchroma)
                IN  \A i \in 0 .. 255 : \A c \in 0 .. 2 :
                        other[4 * i + c] = rgbaOut[4 * i + c]

\* C3 witness: a block with a varying alpha plane decoded at a lossy quality,
\* with colour bytes that the quantization changed.
C3_Witness ==
    /\ pc = "decoded"
    /\ quality < 100
    /\ \E i \in 0 .. 255 : alpha[i] \notin {0, 255} /\ alpha[i] # rgba[4 * i + 2]
    /\ \E i \in 0 .. 255 : rgbaOut[4 * i] # rgba[4 * i]

---------------------------------------------------------------------------
(* Claims about the layout of the encoder's output.                        *)

\* The 64 samples of luma quadrant (qx, qy), by the index formula.
C21_Quadrant(yc, qx, qy) ==
    [n \in 0 .. 63 |-> yc[((qy * 8 + (n \div 8)) * 16 + qx * 8 + (n % 8)) * 3 + 0]]

\* Channel ch halved in each direction: the four samples of every 2x2 group
\* summed and shifted right by two.
C21_Halved(yc, ch) ==
    [n \in 0 .. 63 |->
        LET r == 2 * (n \div 8)
            c == 2 * (n % 8)
        IN  Sar(yc[(r * 16 + c) * 3 + ch] + yc[(r * 16 + c + 1) * 3 + ch]
                + yc[((r + 1) * 16 + c) * 3 + ch]
                + yc[((r + 1) * 16 + c + 1) * 3 + ch], 2)]

\* fdct8x8i of a block, every coefficient divided by its table entry with
\* truncation toward zero.
C21_Quantized(samples, qt) ==
    LET f == fdct8x8i(samples)
    IN  [n \in 0 .. 63 |-> TruncDiv(f[n], qt[n])]

\* C21: encode16x16i stores luma quadrant (qx, qy) at Y[k*64 .. k*64+63] with
\* k = qy*2 + qx; Y[k*64 + i*8 + j] is coefficient (i, j) of fdct8x8i applied
\* to the samples YCoCg[((qy*8+i)*16 + qx*8 + j)*3 + 0], divided by
\* Qluma[i*8+j] with truncation toward zero; Co and Cg are the same transform
\* of the subsampled channels 1 and 2 divided by Qchroma.
C21_QuadrantLayout ==
    pc = "encoded" =>
        LET yc == rgba_to_ycocga(rgba).ycocg
        IN  /\ \A qx \in 0 .. 1 : \A qy \in 0 .. 1 :
                  LET k == qy * 2 + qx
                      q == C21_Quantized(C21_Quadrant(yc, qx, qy), Qluma)
                  IN  \A n \in 0 .. 63 : Y[k * 64 + n] = q[n]
            /\ Co = C21_Quantized(C21_Halved(yc, 1), Qchroma)
            /\ Cg = C21_Quantized(C21_Halved(yc, 2), Qchroma)

\* C21 witness: an encoded block whose top-right and bottom-left quadrants
\* differ, with a negative luma coefficient that its table entry does not
\* divide and a chroma block that is not all zero.
C21_Witness ==
    /\ pc = "encoded"
    /\ \E n \in 0 .. 63 : Y[64 + n] # Y[128 + n]
    /\ LET yc == rgba_to_ycocga(rgba).ycocg
       IN  \E qx \in 0 .. 1 : \E qy \in 0 .. 1 :
               LET f == fdct8x8i(C21_Quadrant(yc, qx, qy))
               IN  \E n \in 0 .. 63 : f[n] < 0 /\ f[n] % Qluma[n] # 0
    /\ \E n \in 0 .. 63 : Co[n] # 0

\* The dequantized planes of the coefficients held in Y, Co, Cg: the four
\* luma blocks in the order they are stored, and the two chroma blocks.
C22_Luma(k) == idct8x8id(Block64(Y, k * 64), Qluma)

C22_Orange == idct8x8id(Co, Qchroma)

C22_Green == idct8x8id(Cg, Qchroma)

\* The pixel at row r, column c, from luma sample (r mod 8, c mod 8) of block
\* (r div 8)*2 + (c div 8) and the chroma samples at (r div 2, c div 2).
C22_Pixel(l0, l1, l2, l3, od, gd, r, c) ==
    LET k   == (r \div 8) * 2 + (c \div 8)
        lum == <<l0, l1, l2, l3>>[k + 1][(r % 8) * 8 + (c % 8)]
        at  == (r \div 2) * 8 + (c \div 2)
    IN  DecodePixel(lum, od[at], gd[at])

\* C22: in decode16x16i_rgba and decode16x16i_rgb the output pixel at row r,
\* column c (0..15) is computed from the dequantized luma sample
\* (r mod 8, c mod 8) of luma block k = (r div 8)*2 + (c div 8) and from the
\* dequantized Co and Cg samples at (r div 2, c div 2): the luma blocks are
\* merged as quadrants TL, TR, BL, BR in that order and each chroma sample is
\* replicated over a 2x2 pixel group.
C22_PixelSources ==
    pc \in {"decoded", "decoded_rgb"} =>
        LET l0 == C22_Luma(0)
            l1 == C22_Luma(1)
            l2 == C22_Luma(2)
            l3 == C22_Luma(3)
            od == C22_Orange
            gd == C22_Green
        IN  \A r \in 0 .. 15 : \A c \in 0 .. 15 :
                LET px == C22_Pixel(l0, l1, l2, l3, od, gd, r, c)
                    i  == r * 16 + c
                IN  /\ \A ch \in 0 .. 2 : rgbaOut[4 * i + ch] = px[ch + 1]
                    /\ pc = "decoded_rgb" =>
                          \A ch \in 0 .. 2 : rgbOut[3 * i + ch] = px[ch + 1]

\* C22 witness: both decoders have run on coefficients whose top-right and
\* bottom-left luma blocks dequantize to different pixels and whose chroma
\* varies between neighbouring 2x2 groups.
C22_Witness ==
    /\ pc = "decoded_rgb"
    /\ \E n \in 0 .. 63 : C22_Luma(1)[n] # C22_Luma(2)[n]
    /\ \E n \in 0 .. 62 : C22_Orange[n] # C22_Orange[n + 1]
    /\ \E r \in 0 .. 7 : \E c \in 8 .. 15 :
           rgbOut[3 * (r * 16 + c)] # rgbOut[3 * ((r + 8) * 16 + (c - 8))]

---------------------------------------------------------------------------
(* The zig-zag order: a coefficient array emitted through the ZigZag table *)
(* and put back.                                                           *)

\* The emitted stream: output[k] = coeffs[ZigZag[k]].
ZigZagEmit(coeffs) == [k \in 0 .. 63 |-> coeffs[ZigZag[k]]]

\* The inverse permutation as a loop over the stream into a zeroed array:
\* out[ZigZag[k]] = s[k] for k, k + 1, ..., 63.
RECURSIVE ZigZagScatter(_, _, _)
ZigZagScatter(s, out, k) ==
    IF k = 64 THEN out
    ELSE ZigZagScatter(s, [out EXCEPT ![ZigZag[k]] = s[k]], k + 1)

ZigZagRestore(s) == ZigZagScatter(s, [n \in 0 .. 63 |-> 0], 0)

\* The array equal to its own index.
IndexArray == [i \in 0 .. 63 |-> i]

\* The largest value of the single nonzero coefficient of an input array.
CoefSpan == 1

ZigZagInputs ==
    {IndexArray} \cup {ImpulseBlock(p, v, 0) : p \in 0 .. 63, v \in 1 .. CoefSpan}

InitZigZag ==
    /\ pc = "natural"
    /\ natural \in ZigZagInputs
    /\ stream = Nil /\ restored = Nil
    /\ IdlePixels /\ IdleColor /\ IdleCodec /\ IdleTables /\ IdleQuant /\ IdleDct
    /\ IdleTiler /\ IdleIoq /\ IdleSample

Emit ==
    /\ pc = "natural"
    /\ stream' = ZigZagEmit(natural)
    /\ pc' = "stream"
    /\ UNCHANGED <<natural, restored, varsPixels, varsColor, varsCodec, varsTables,
                   varsQuant, varsDct,
                   varsTiler, varsIoq,
                   varsSample>>

Restore ==
    /\ pc = "stream"
    /\ restored' = ZigZagRestore(stream)
    /\ pc' = "restored"
    /\ UNCHANGED <<natural, stream, varsPixels, varsColor, varsCodec, varsTables,
                   varsQuant, varsDct,
                   varsTiler, varsIoq,
                   varsSample>>

NextZigZag == Emit \/ Restore

SpecZigZag == InitZigZag /\ [][NextZigZag]_vars

---------------------------------------------------------------------------
(* Claims about the zig-zag order.                                         *)

\* C10: every index 0..63 appears exactly once in the ZigZag table; an array
\* emitted through the table and put back through the inverse permutation is
\* the array itself; and the array equal to its own index is emitted as
\* 0, 1, 8, 16, 9, 2, 3, 10, ... and ends with 63.
C10_ZigZagPermutation ==
    /\ DOMAIN ZigZag = 0 .. 63
    /\ \A n \in 0 .. 63 : Cardinality({k \in 0 .. 63 : ZigZag[k] = n}) = 1
    /\ pc = "restored" => restored = natural
    /\ (pc \in {"stream", "restored"} /\ natural = IndexArray) =>
          /\ <<stream[0], stream[1], stream[2], stream[3],
               stream[4], stream[5], stream[6], stream[7]>>
                = <<0, 1, 8, 16, 9, 2, 3, 10>>
          /\ stream[63] = 63

\* C10 witness: the index array emitted out of natural order and put back.
C10_Witness ==
    /\ pc = "restored"
    /\ natural = IndexArray
    /\ stream # natural
    /\ restored = natural

---------------------------------------------------------------------------
(* The image tiler: tile_count, tile_alloc and copy_tile.                  *)

\* size_t is unsigned and modular.  The modulus of the build, 2^64, is out of
\* reach of the model's integers; SizeModulus stands for it, far above every
\* dimension, buffer length and index that occurs here.
SizeModulus == 2 ^ 30

\* The square root of SizeModulus.
SizeHalf == 2 ^ 15

SizeAdd(a, b) == (a + b) % SizeModulus

SizeSub(a, b) == (a - b) % SizeModulus

\* a * b on size_t, from the halves of a and b so that no intermediate
\* product leaves the integers.
SizeMul(a, b) ==
    LET a1 == a \div SizeHalf
        a0 == a % SizeHalf
        b1 == b \div SizeHalf
        b0 == b % SizeHalf
    IN  (((a1 * b0 + a0 * b1) % SizeHalf) * SizeHalf + a0 * b0) % SizeModulus

BORDER_CLAMP_TO_EDGE == 0

BORDER_CONSTANT_COLOR == 1

\* The digits of a float's significand.
FLT_MANT_DIG == 24

\* The number of binary digits of n >= 0.
RECURSIVE BitLen(_)
BitLen(n) == IF n = 0 THEN 0 ELSE 1 + BitLen(n \div 2)

\* num / den rounded to the nearest multiple of unit, ties to the even
\* multiple.
RoundToUnit(num, den, unit) ==
    LET k    == num \div den
        r    == num % den
        q    == k \div unit
        twice == 2 * ((k % unit) * den + r)
    IN  IF twice < unit * den \/ (twice = unit * den /\ q % 2 = 0)
        THEN q * unit
        ELSE (q + 1) * unit

\* (float) n for a size_t n: n rounded to FLT_MANT_DIG significant digits.
ToFloat(n) ==
    IF BitLen(n) <= FLT_MANT_DIG THEN n
    ELSE RoundToUnit(n, 1, 2 ^ (BitLen(n) - FLT_MANT_DIG))

\* (size_t) ceilf(a / b) for floats a >= 0 and b > 0 that hold integers: the
\* quotient is rounded to a float before ceilf sees it.
CeilQuotient(a, b) ==
    LET k == a \div b
        r == a % b
        L == BitLen(k)
    IN  IF r = 0 THEN k
        ELSE IF L >= FLT_MANT_DIG
             THEN RoundToUnit(a, b, 2 ^ (L - FLT_MANT_DIG))
        ELSE IF k > 0 /\ r <= b \div (2 ^ (FLT_MANT_DIG + 1 - L))
             THEN k
        ELSE k + 1

\* What the conversion (size_t) ceilf(x / 0.0f) of an infinity can yield: the
\* conversion is undefined; builds give 0 or the greatest size_t.
InfAsSize == {0, SizeModulus - 1}

\* tile_count: num_x, num_y and their product.
tile_count(cfg, inf) ==
    LET borders == SizeMul(cfg.BorderSize, 2)
        image_w == ToFloat(cfg.ImageWidth)
        image_h == ToFloat(cfg.ImageHeight)
        tile_w  == ToFloat(SizeSub(cfg.TileWidth, borders))
        tile_h  == ToFloat(SizeSub(cfg.TileHeight, borders))
        tiles_x == IF tile_w = 0 THEN inf ELSE CeilQuotient(image_w, tile_w)
        tiles_y == IF tile_h = 0 THEN inf ELSE CeilQuotient(image_h, tile_h)
    IN  [num_x |-> tiles_x, num_y |-> tiles_y, n |-> SizeMul(tiles_x, tiles_y)]

\* The number of pixels tile_alloc gives a tile.
TileLen(cfg) == cfg.TileWidth * cfg.TileHeight

\* tile_alloc: metadata cleared, Pixels a fresh block whose content is
\* whatever malloc left there (fresh).
tile_alloc(cfg, fresh) ==
    [SourceX |-> 0, SourceY |-> 0, SourceWidth |-> 0, SourceHeight |-> 0,
     TileX |-> 0, TileY |-> 0, TileIndex |-> 0, TileWidth |-> 0, TileHeight |-> 0,
     BytesPerRow |-> 0, BytesPerTile |-> 0,
     Pixels |-> [i \in 0 .. TileLen(cfg) - 1 |-> fresh]]

\* sample_border taking the edge pixel in every mode.
sample_border_AlwaysEdge(cfg, edge) == edge

\* sample_border: the border colour at an edge pixel.
sample_border(cfg, edge) ==
    CASE cfg.BorderMode = BORDER_CLAMP_TO_EDGE  -> edge
      [] cfg.BorderMode = BORDER_CONSTANT_COLOR -> cfg.BorderColor
      [] OTHER -> 0

\* The pixel at offset k of an image.  An image is held by the rule of its
\* pixels, first + step * k, so that its size costs nothing.
PixelAt(image, k) == image.first + image.step * k

\* Whether offset off lies in the source image.
InImage(cfg, off) == off >= 0 /\ off < cfg.ImageWidth * cfg.ImageHeight

\* The pixel at offset off of the source image; outside the image the read
\* yields whatever lies there (stray).
Deref(cfg, off, stray) ==
    IF InImage(cfg, off) THEN PixelAt(cfg.Pixels, off) ELSE stray[off % 2]

\* for (i = 0; i < n; ++i) *row_buf++ = v, cut off after cap pixels.
Fill(v, n, cap) == [i \in 1 .. qmin(n, cap) |-> v]

\* read_row padding the right edge with the row's first source pixel.
read_row_PadFromLeft(cfg, src_row, src_num, pad_right, stray, cap) ==
    LET left_edge    == src_row
        right_edge   == src_row + (src_num - 1)
        left_border  == sample_border(cfg, Deref(cfg, left_edge, stray))
        right_pixel  == Deref(cfg, left_edge, stray)
        right_border == sample_border(cfg, Deref(cfg, right_edge, stray))
    IN  [px    |-> Fill(left_border, cfg.BorderSize, cap)
                     \o [i \in 1 .. qmin(src_num, cap) |->
                            Deref(cfg, src_row + (i - 1), stray)]
                     \o Fill(right_pixel, pad_right, cap)
                     \o Fill(right_border, cfg.BorderSize, cap),
         reads |-> {src_row + i : i \in 0 .. qmin(src_num, cap) - 1}
                     \cup {right_edge}
                     \cup (IF cfg.BorderMode = BORDER_CLAMP_TO_EDGE
                           THEN {left_edge} ELSE {})]

\* read_row: left border, src_num source pixels, pad_right copies of the last
\* source pixel, right border; with the image offsets it reads.  A run of
\* source pixels is cut off after cap pixels, as the fills are.
read_row(cfg, src_row, src_num, pad_right, stray, cap) ==
    LET left_edge    == src_row
        right_edge   == src_row + (src_num - 1)
        left_border  == sample_border(cfg, Deref(cfg, left_edge, stray))
        right_pixel  == Deref(cfg, right_edge, stray)
        right_border == sample_border(cfg, right_pixel)
    IN  [px    |-> Fill(left_border, cfg.BorderSize, cap)
                     \o [i \in 1 .. qmin(src_num, cap) |->
                            Deref(cfg, src_row + (i - 1), stray)]
                     \o Fill(right_pixel, pad_right, cap)
                     \o Fill(right_border, cfg.BorderSize, cap),
         reads |-> {src_row + i : i \in 0 .. qmin(src_num, cap) - 1}
                     \cup {right_edge}
                     \cup (IF cfg.BorderMode = BORDER_CLAMP_TO_EDGE
                           THEN {left_edge} ELSE {})]

\* read_row_border: a row of the top or bottom border.
read_row_border(cfg, row_num, src_row, src_num, pad_right, stray, cap) ==
    CASE cfg.BorderMode = BORDER_CLAMP_TO_EDGE ->
            read_row(cfg, src_row, src_num, pad_right, stray, cap)
      [] cfg.BorderMode = BORDER_CONSTANT_COLOR ->
            [px |-> Fill(cfg.BorderColor, row_num, cap), reads |-> {}]

\* n copies of a row one after the other, cut off after cap copies.
Times(row, n, cap) ==
    [k \in 1 .. (qmin(n, cap) * Len(row)) |-> row[((k - 1) % Len(row)) + 1]]

\* copy_tile, the loop over the source rows: n rows from src_row on, src_row
\* advanced by ImageWidth after each.
RECURSIVE read_rows(_, _, _, _, _, _, _)
read_rows(cfg, src_row, src_num, pad_right, stray, cap, n) ==
    IF n = 0 THEN [px |-> <<>>, reads |-> {}]
    ELSE LET r    == read_row(cfg, src_row, src_num, pad_right, stray, cap)
             rest == read_rows(cfg, src_row + cfg.ImageWidth, src_num, pad_right,
                               stray, cap, n - 1)
         IN  [px |-> r.px \o rest.px, reads |-> r.reads \cup rest.reads]

\* tile_source stepping from tile to tile by the whole tile side, borders
\* included.
tile_source_WholeStep(cfg, tile_x, tile_y, full_w, full_h) ==
    LET source_x == SizeMul(tile_x, cfg.TileWidth)
        source_y == SizeMul(tile_y, cfg.TileHeight)
        over_x   == SizeAdd(source_x, full_w) > cfg.ImageWidth
        over_y   == SizeAdd(source_y, full_h) > cfg.ImageHeight
        source_w == IF over_x THEN SizeSub(cfg.ImageWidth, source_x) ELSE full_w
        source_h == IF over_y THEN SizeSub(cfg.ImageHeight, source_y) ELSE full_h
    IN  [source_x   |-> source_x,
         source_y   |-> source_y,
         source_w   |-> source_w,
         source_h   |-> source_h,
         pad_right  |-> IF over_x THEN SizeSub(full_w, source_w) ELSE 0,
         pad_bottom |-> IF over_y THEN SizeSub(full_h, source_h) ELSE 0,
         src_row    |-> source_y * cfg.ImageWidth + source_x]

\* copy_tile, the source rectangle of tile (tile_x, tile_y) and its padding,
\* from the tile's size without borders (full_w, full_h).
tile_source(cfg, tile_x, tile_y, full_w, full_h) ==
    LET source_x == SizeMul(tile_x, full_w)
        source_y == SizeMul(tile_y, full_h)
        over_x   == SizeAdd(source_x, full_w) > cfg.ImageWidth
        over_y   == SizeAdd(source_y, full_h) > cfg.ImageHeight
        source_w == IF over_x THEN SizeSub(cfg.ImageWidth, source_x) ELSE full_w
        source_h == IF over_y THEN SizeSub(cfg.ImageHeight, source_y) ELSE full_h
    IN  [source_x   |-> source_x,
         source_y   |-> source_y,
         source_w   |-> source_w,
         source_h   |-> source_h,
         pad_right  |-> IF over_x THEN SizeSub(full_w, source_w) ELSE 0,
         pad_bottom |-> IF over_y THEN SizeSub(full_h, source_h) ELSE 0,
         src_row    |-> source_y * cfg.ImageWidth + source_x]

\* copy_tile, the rows above the bottom padding: the top border and the
\* source rows.
tile_upper(cfg, s, top, rows, cap) ==
    [px    |-> Times(top.px, cfg.BorderSize, cap) \o rows.px,
     reads |-> (IF cfg.BorderSize > 0 THEN top.reads ELSE {}) \cup rows.reads]

\* tile_written without the bottom padding rows.
tile_written_NoBottomPad(cfg, s, upper, bottom, before, cap) ==
    [px     |-> upper.px \o Times(bottom.px, cfg.BorderSize, cap),
     reads  |-> upper.reads
                   \cup (IF cfg.BorderSize > 0 THEN bottom.reads ELSE {}),
     behind |-> FALSE]

\* copy_tile, the pixels it writes from the start of the pixel block on and
\* the image offsets it reads; before is what lies in front of the pixel
\* block, which the bottom padding copies if no row was written.
tile_written(cfg, s, upper, bottom, before, cap) ==
    LET dst_num  == cfg.TileWidth
        n        == Len(upper.px)
        last_row == IF n >= dst_num
                    THEN SubSeq(upper.px, n - dst_num + 1, n)
                    ELSE [j \in 1 .. dst_num |-> before[j % 2]]
    IN  [px     |-> upper.px \o Times(last_row, s.pad_bottom, cap)
                            \o Times(bottom.px, cfg.BorderSize, cap),
         reads  |-> upper.reads
                       \cup (IF cfg.BorderSize > 0 THEN bottom.reads ELSE {}),
         behind |-> s.pad_bottom > 0 /\ n < dst_num]

\* copy_tile, its loops: the top border, the source rows, the bottom padding
\* and the bottom border, written one after the other.
tile_pixels(cfg, s, stray, cap) ==
    tile_written(cfg, s,
        tile_upper(cfg, s,
            read_row_border(cfg, cfg.TileWidth, s.src_row, s.source_w,
                            s.pad_right, stray, cap),
            read_rows(cfg, s.src_row, s.source_w, s.pad_right, stray, cap,
                      qmin(s.source_h, cap)),
            cap),
        read_row_border(cfg, cfg.TileWidth,
                        s.src_row + s.source_h * cfg.ImageWidth,
                        s.source_w, s.pad_right, stray, cap),
        stray, cap)

\* copy_tile, the tile as the call leaves it.  Writes past the end of the
\* pixel block are dropped from the tile.
tile_filled(t, cfg, idx, tile_x, tile_y, s, w) ==
    LET astray == w.behind \/ \E r \in w.reads : ~InImage(cfg, r)
    IN  [ret  |-> "true",
         wild |-> astray,
         ub   |-> astray \/ Len(w.px) > Cardinality(DOMAIN t.Pixels),
         reads |-> w.reads,
         count |-> Len(w.px),
         tile |-> [SourceX      |-> s.source_x,
                   SourceY      |-> s.source_y,
                   SourceWidth  |-> s.source_w,
                   SourceHeight |-> s.source_h,
                   TileX        |-> tile_x,
                   TileY        |-> tile_y,
                   TileIndex    |-> idx,
                   TileWidth    |-> cfg.TileWidth,
                   TileHeight   |-> cfg.TileHeight,
                   BytesPerRow  |-> cfg.TileWidth * 4,
                   BytesPerTile |-> cfg.TileWidth * cfg.TileHeight * 4,
                   Pixels       |-> [i \in DOMAIN t.Pixels |->
                                        IF i < Len(w.px) THEN w.px[i + 1]
                                        ELSE t.Pixels[i]]]]

\* copy_tile once the index has passed its test.
tile_copy(t, cfg, idx, tile_x, tile_y, s, stray) ==
    tile_filled(t, cfg, idx, tile_x, tile_y, s,
                tile_pixels(cfg, s, stray, Cardinality(DOMAIN t.Pixels) + 1))

\* copy_tile storing the index in the tile before it tests it.
copy_tile_of_StampFirst(t, cfg, idx, tc, stray) ==
    IF idx >= tc.n
    THEN [ret |-> "false", tile |-> [t EXCEPT !.TileIndex = idx],
          wild |-> FALSE, ub |-> FALSE, reads |-> {}, count |-> 0]
    ELSE tile_copy(t, cfg, idx, idx % tc.num_x, idx \div tc.num_x,
                   tile_source(cfg, idx % tc.num_x, idx \div tc.num_x,
                               SizeSub(cfg.TileWidth, SizeMul(cfg.BorderSize, 2)),
                               SizeSub(cfg.TileHeight, SizeMul(cfg.BorderSize, 2))),
                   stray)

\* copy_tile with the tile count tc it computes.
copy_tile_of(t, cfg, idx, tc, stray) ==
    IF idx >= tc.n
    THEN [ret |-> "false", tile |-> t, wild |-> FALSE, ub |-> FALSE,
          reads |-> {}, count |-> 0]
    ELSE tile_copy(t, cfg, idx, idx % tc.num_x, idx \div tc.num_x,
                   tile_source(cfg, idx % tc.num_x, idx \div tc.num_x,
                               SizeSub(cfg.TileWidth, SizeMul(cfg.BorderSize, 2)),
                               SizeSub(cfg.TileHeight, SizeMul(cfg.BorderSize, 2))),
                   stray)

\* copy_tile: how the call ends (ret), the tile afterwards, whether a read
\* left the image or went before the tile's pixel block (wild), whether
\* an access left a buffer at all (ub), the image offsets read (reads) and
\* the number of pixels written from the start of the pixel block (count,
\* counted up to one past the block's size).
copy_tile(t, cfg, idx, inf, stray) ==
    copy_tile_of(t, cfg, idx, tile_count(cfg, inf), stray)

---------------------------------------------------------------------------
(* The tiler program: count the tiles, allocate a tile, copy tiles into it. *)

\* Image sides run over 1 .. MaxImage, tile sides over 1 .. MaxTile and the
\* border over 0 .. MaxBorder.
MaxImage == 3

MaxTile == 4

MaxBorder == 1

\* An image whose every pixel differs: the pixel at offset k holds 16 + k.
CodedImage == [first |-> 16, step |-> 1]

\* An image of one colour.
SolidImage == [first |-> 1, step |-> 0]

\* The contents of memory outside the image, by the parity of the offset.
StrayPixels == [0 .. 1 -> {1, 3}]

\* One of them, for the calls that read nothing outside their buffers.
NoStray == [k \in 0 .. 1 |-> 1]

\* The conversions of an infinity that a configuration can meet: tile_count
\* divides by zero only when a tile side is twice the border.
InfOutcomes(cfg) ==
    IF \/ cfg.TileWidth = 2 * cfg.BorderSize
       \/ cfg.TileHeight = 2 * cfg.BorderSize
    THEN InfAsSize ELSE {0}

\* The memory contents a call can meet: all of them if it reads outside its
\* buffers, otherwise they do not matter.
StrayOutcomes(t, cfg, idx, inf) ==
    IF copy_tile(t, cfg, idx, inf, NoStray).wild THEN StrayPixels ELSE {NoStray}

\* The contents of a pixel block as malloc returns it.
FreshPixels == {0, 4}

TilerConfig(iw, ih, tw, th, b, mode, px) ==
    [TileWidth |-> tw, TileHeight |-> th, ImageWidth |-> iw, ImageHeight |-> ih,
     BorderSize |-> b, BorderMode |-> mode, BorderColor |-> 2, Pixels |-> px]

TilerConfigs ==
    {TilerConfig(iw, ih, tw, th, b, mode, CodedImage) :
        iw \in 1 .. MaxImage, ih \in 1 .. MaxImage, tw \in 1 .. MaxTile,
        th \in 1 .. MaxTile, b \in 0 .. MaxBorder,
        mode \in {BORDER_CLAMP_TO_EDGE, BORDER_CONSTANT_COLOR}}
    \cup
    {TilerConfig(iw, ih, tw, th, b, BORDER_CLAMP_TO_EDGE, SolidImage) :
        iw \in 1 .. MaxImage, ih \in 1 .. MaxImage, tw \in 1 .. MaxTile,
        th \in 1 .. MaxTile, b \in 0 .. MaxBorder}
    \cup
    {TilerConfig(17, 17, 16, 16, 0, BORDER_CLAMP_TO_EDGE, CodedImage)}

\* The greatest index given to copy_tile: no image needs more tiles than it
\* has pixels.
MaxIndex(cfg) == cfg.ImageWidth * cfg.ImageHeight + 1

\* The indices given to copy_tile after done tiles have been copied: the
\* next tile, as the caller's loop over 0 .. n - 1 gives it, and the two
\* indices after the last tile.
TileIndices(cfg, done, n) ==
    {i \in {done, n, n + 1} :
        /\ i <= MaxIndex(cfg)
        /\ (i < n /\ i = done) \/ (i >= n /\ i <= n + 1)}

\* Image sides around the greatest integer a float counts to, and one
\* beyond them.
WideSides ==
    {2 ^ FLT_MANT_DIG - 1, 2 ^ FLT_MANT_DIG, 2 ^ FLT_MANT_DIG + 1,
     2 ^ FLT_MANT_DIG + 3, 20000001}

\* Tile sides for them.
WideTiles == {1, 2, 16, 1000, 4096, 2 ^ 16}

\* The configurations given to tile_count alone, which reads their sizes
\* only: those of the tiler program, and wide and tall images.
CountConfigs ==
    TilerConfigs
    \cup
    {TilerConfig(w, h, tw, th, b, BORDER_CLAMP_TO_EDGE, CodedImage) :
        w \in WideSides, h \in 1 .. MaxImage, tw \in WideTiles,
        th \in 1 .. MaxTile, b \in 0 .. MaxBorder}
    \cup
    {TilerConfig(h, w, th, tw, b, BORDER_CLAMP_TO_EDGE, CodedImage) :
        w \in WideSides, h \in 1 .. MaxImage, tw \in WideTiles,
        th \in 1 .. MaxTile, b \in 0 .. MaxBorder}

InitCount ==
    /\ pc = "config"
    /\ config \in CountConfigs
    /\ tile = Nil /\ tiles = Nil /\ index = 0 /\ ret = "none" /\ ub = FALSE
    /\ rects = <<>> /\ touched = Nil
    /\ IdlePixels /\ IdleColor /\ IdleCodec /\ IdleTables /\ IdleQuant /\ IdleDct
    /\ IdleZigZag /\ IdleIoq /\ IdleSample

InitTiler ==
    /\ pc = "config"
    /\ config \in TilerConfigs
    /\ tile = Nil /\ tiles = Nil /\ index = 0 /\ ret = "none" /\ ub = FALSE
    /\ rects = <<>> /\ touched = Nil
    /\ IdlePixels /\ IdleColor /\ IdleCodec /\ IdleTables /\ IdleQuant /\ IdleDct
    /\ IdleZigZag /\ IdleIoq /\ IdleSample

TileCount ==
    /\ pc = "config"
    /\ \E inf \in InfOutcomes(config) : tiles' = tile_count(config, inf)
    /\ pc' = "counted"
    /\ UNCHANGED <<config, tile, index, ret, ub, rects, touched, varsPixels, varsColor, varsCodec,
                   varsTables, varsQuant, varsDct, varsZigZag, varsIoq,
                   varsSample>>

TileAlloc ==
    /\ pc = "counted"
    /\ \E fresh \in FreshPixels : tile' = tile_alloc(config, fresh)
    /\ pc' = "alloc"
    /\ UNCHANGED <<config, tiles, index, ret, ub, rects, touched, varsPixels, varsColor, varsCodec,
                   varsTables, varsQuant, varsDct, varsZigZag, varsIoq,
                   varsSample>>

\* copy_tile on the allocated tile and then on the tile it has filled, tile
\* after tile.  A call that leaves its buffers either returns as written or
\* stops the program after its writes to the tile.
CopyTile ==
    /\ pc \in {"alloc", "copied"}
    /\ ret # "crash"
    /\ \E idx \in TileIndices(config, Len(rects), tiles.n) :
       \E inf \in InfOutcomes(config) :
          /\ tile_count(config, inf) = tiles
          /\ \E stray \in StrayOutcomes(tile, config, idx, inf) :
             LET c == copy_tile(tile, config, idx, inf, stray)
             IN  \/ /\ tile' = c.tile
                    /\ ret' = c.ret
                    /\ ub' = c.ub
                    /\ touched' = [reads |-> c.reads, count |-> c.count]
                    /\ rects' = IF c.ret = "true"
                                THEN Append(rects, <<c.tile.SourceX, c.tile.SourceY,
                                                     c.tile.SourceWidth,
                                                     c.tile.SourceHeight>>)
                                ELSE rects
                 \/ /\ c.ub
                    /\ tile' = [tile EXCEPT !.Pixels = c.tile.Pixels]
                    /\ ret' = "crash"
                    /\ ub' = TRUE
                    /\ touched' = [reads |-> c.reads, count |-> c.count]
                    /\ rects' = rects
          /\ index' = idx
    /\ pc' = "copied"
    /\ UNCHANGED <<config, tiles, varsPixels, varsColor, varsCodec,
                   varsTables, varsQuant, varsDct, varsZigZag, varsIoq,
                   varsSample>>

NextTiler == TileCount \/ TileAlloc \/ CopyTile

SpecTiler == InitTiler /\ [][NextTiler]_vars

\* tile_count alone.
NextCount == TileCount

SpecCount == InitCount /\ [][NextCount]_vars

\* A configuration copy_tile accepts: each tile side exceeds twice the
\* border.
ValidConfig(cfg) ==
    /\ cfg.TileWidth > 2 * cfg.BorderSize
    /\ cfg.TileHeight > 2 * cfg.BorderSize

\* ceil(a / b) in the integers.
Ceiling(a, b) == (a + b - 1) \div b

\* C11: for a configuration whose tile sides exceed twice the border,
\* tile_count returns num_x = ceil(ImageWidth / (TileWidth - 2 BorderSize)),
\* num_y = ceil(ImageHeight / (TileHeight - 2 BorderSize)) and their product;
\* a 17x17 image in 16x16 tiles without border gives (2, 2, 4).
C11_TileCountIsCeiling ==
    (pc = "counted" /\ ValidConfig(config)) =>
        LET nx == Ceiling(config.ImageWidth, config.TileWidth - 2 * config.BorderSize)
            ny == Ceiling(config.ImageHeight, config.TileHeight - 2 * config.BorderSize)
        IN  /\ tiles = [num_x |-> nx, num_y |-> ny, n |-> nx * ny]
            /\ (/\ config.ImageWidth = 17 /\ config.ImageHeight = 17
                /\ config.TileWidth = 16 /\ config.TileHeight = 16
                /\ config.BorderSize = 0)
               => tiles = [num_x |-> 2, num_y |-> 2, n |-> 4]


\* Whether the source rectangle r = <<x, y, w, h>> holds the pixel (x, y).
InRect(r, x, y) ==
    /\ r[1] <= x /\ x < r[1] + r[3]
    /\ r[2] <= y /\ y < r[2] + r[4]

TilePixel(r, c) == tile.Pixels[r * config.TileWidth + c]

\* Whether row r, column c of a tile lies in its outer ring of BorderSize
\* pixels.
InRing(cfg, r, c) ==
    \/ r < cfg.BorderSize \/ r >= cfg.TileHeight - cfg.BorderSize
    \/ c < cfg.BorderSize \/ c >= cfg.TileWidth - cfg.BorderSize

\* C13: with BORDER_CONSTANT_COLOR, after copy_tile has copied a tile every
\* pixel of the tile's outer ring of BorderSize pixels (top and bottom rows,
\* left and right columns of every row, bottom padding rows included) is
\* BorderColor, whatever the index and the padding.
C13_ConstantBorderRing ==
    (/\ pc = "copied" /\ ret = "true" /\ ValidConfig(config)
     /\ config.BorderMode = BORDER_CONSTANT_COLOR) =>
        \A r \in 0 .. config.TileHeight - 1, c \in 0 .. config.TileWidth - 1 :
            InRing(config, r, c) => TilePixel(r, c) = config.BorderColor

\* The bottom right tile of a 3x3 image in 4x4 tiles with a border of one
\* pixel and a constant border colour: one source pixel, one column and one
\* row of padding, and the ring around them.
C13_Witness ==
    /\ pc = "copied" /\ ret = "true"
    /\ config.BorderMode = BORDER_CONSTANT_COLOR /\ config.BorderSize = 1
    /\ config.ImageWidth = 3 /\ config.ImageHeight = 3
    /\ config.TileWidth = 4 /\ config.TileHeight = 4
    /\ index = 3
    /\ tile.SourceWidth = 1 /\ tile.SourceHeight = 1
    /\ TilePixel(1, 1) = PixelAt(config.Pixels, 8)
    /\ TilePixel(2, 2) = PixelAt(config.Pixels, 8)
    /\ TilePixel(2, 3) = config.BorderColor
    /\ TilePixel(3, 0) = config.BorderColor


ImagePixel(x, y) == PixelAt(config.Pixels, y * config.ImageWidth + x)

\* C15: for a tile that reaches past the right or bottom image edge,
\* copy_tile sets SourceWidth and SourceHeight to the extent inside the
\* image, fills the pad_right columns after a row's source pixels with the
\* row's last source pixel and fills each of the pad_bottom rows after the
\* source rows with a copy of the last source row as written; tile (1,1) of
\* a 17x17 image in 16x16 tiles without border has SourceWidth =
\* SourceHeight = 1 and 256 pixels equal to the image's bottom right pixel.
C15_PaddingRepeatsEdge ==
    (pc = "copied" /\ ret = "true" /\ ValidConfig(config)) =>
        LET B          == config.BorderSize
            full_w     == config.TileWidth - 2 * B
            full_h     == config.TileHeight - 2 * B
            pad_right  == full_w - tile.SourceWidth
            pad_bottom == full_h - tile.SourceHeight
        IN  /\ tile.SourceWidth = qmin(full_w, config.ImageWidth - tile.SourceX)
            /\ tile.SourceHeight = qmin(full_h, config.ImageHeight - tile.SourceY)
            /\ \A r \in 0 .. tile.SourceHeight - 1, j \in 0 .. pad_right - 1 :
                  TilePixel(B + r, B + tile.SourceWidth + j)
                     = ImagePixel(tile.SourceX + tile.SourceWidth - 1, tile.SourceY + r)
            /\ \A k \in 0 .. pad_bottom - 1, c \in 0 .. config.TileWidth - 1 :
                  TilePixel(B + tile.SourceHeight + k, c)
                     = TilePixel(B + tile.SourceHeight - 1, c)
            /\ (/\ config.ImageWidth = 17 /\ config.ImageHeight = 17
                /\ config.TileWidth = 16 /\ config.TileHeight = 16
                /\ B = 0 /\ index = 3)
               => /\ tile.TileX = 1 /\ tile.TileY = 1
                  /\ tile.SourceWidth = 1 /\ tile.SourceHeight = 1
                  /\ Cardinality(DOMAIN tile.Pixels) = 256
                  /\ \A i \in DOMAIN tile.Pixels :
                        tile.Pixels[i] = ImagePixel(16, 16)

\* Tile (1,1) of the 17x17 image has been copied: one source pixel, fifteen
\* columns and fifteen rows of padding.
C15_Witness ==
    /\ pc = "copied" /\ ret = "true"
    /\ config.ImageWidth = 17 /\ config.TileWidth = 16 /\ index = 3
    /\ tile.SourceX = 16 /\ tile.SourceY = 16
    /\ tile.SourceWidth = 1 /\ tile.SourceHeight = 1
    /\ tile.Pixels[0] = ImagePixel(16, 16)
    /\ tile.Pixels[255] = ImagePixel(16, 16)


\* C24: in BORDER_CLAMP_TO_EDGE mode every border pixel written by copy_tile
\* equals the nearest edge pixel of that tile's own source rectangle: the
\* left and right border pixels of a row equal that row's first and last
\* source pixel, the top border rows equal the tile's first interior row and
\* the bottom border rows equal the tile's last interior row.
C24_ClampNearestEdge ==
    (/\ pc = "copied" /\ ret = "true" /\ ValidConfig(config)
     /\ config.BorderMode = BORDER_CLAMP_TO_EDGE) =>
        LET B  == config.BorderSize
            TW == config.TileWidth
            TH == config.TileHeight
        IN  /\ \A r \in 0 .. tile.SourceHeight - 1, j \in 0 .. B - 1 :
                  /\ TilePixel(B + r, j) = ImagePixel(tile.SourceX, tile.SourceY + r)
                  /\ TilePixel(B + r, TW - B + j)
                        = ImagePixel(tile.SourceX + tile.SourceWidth - 1, tile.SourceY + r)
            /\ \A k \in 0 .. B - 1, c \in 0 .. TW - 1 :
                  /\ TilePixel(k, c) = TilePixel(B, c)
                  /\ TilePixel(TH - B + k, c) = TilePixel(TH - B - 1, c)


\* C26: for every valid configuration, border mode and index < tile_count,
\* copy_tile reads only source pixels inside
\* [0, ImageWidth) x [0, ImageHeight): no read_row or read_row_border call,
\* those for the top and bottom border rows of the last tile row included,
\* reads a source row at or beyond ImageHeight or a column at or beyond
\* ImageWidth.
C26_ReadsInsideImage ==
    (/\ pc = "copied" /\ ret \in {"true", "crash"} /\ ValidConfig(config)
     /\ index < tiles.n) =>
        \A off \in touched.reads :
            /\ off >= 0
            /\ off \div config.ImageWidth < config.ImageHeight

\* C27: for every valid configuration and index < tile_count, copy_tile
\* writes each of the TileWidth x TileHeight pixels of the tile's pixel block
\* and nothing beyond it: every row has BorderSize + SourceWidth + pad_right
\* + BorderSize = TileWidth pixels, the rows number BorderSize + SourceHeight
\* + pad_bottom + BorderSize = TileHeight, and on return TileWidth,
\* TileHeight, BytesPerRow = TileWidth*4 and BytesPerTile =
\* TileWidth*TileHeight*4 describe exactly that block.
C27_TileFullyWritten ==
    (/\ pc = "copied" /\ ret = "true" /\ ValidConfig(config)
     /\ index < tiles.n) =>
        LET B  == config.BorderSize
            TW == config.TileWidth
            TH == config.TileHeight
        IN  /\ touched.count = TW * TH
            /\ DOMAIN tile.Pixels = 0 .. TW * TH - 1
            /\ tile.SourceWidth >= 1 /\ B + tile.SourceWidth + B <= TW
            /\ tile.SourceHeight >= 1 /\ B + tile.SourceHeight + B <= TH
            /\ \A r \in 0 .. tile.SourceHeight - 1, c \in 0 .. tile.SourceWidth - 1 :
                  TilePixel(B + r, B + c)
                     = ImagePixel(tile.SourceX + c, tile.SourceY + r)
            /\ tile.TileWidth = TW /\ tile.TileHeight = TH
            /\ tile.BytesPerRow = TW * 4
            /\ tile.BytesPerTile = TW * TH * 4

\* C27 witness: the bottom right tile of a 3x3 image in 4x4 tiles with a
\* border of one pixel: one source pixel, one column and one row of padding
\* and the border, sixteen pixels written.
C27_Witness ==
    /\ pc = "copied" /\ ret = "true"
    /\ config.ImageWidth = 3 /\ config.ImageHeight = 3
    /\ config.TileWidth = 4 /\ config.TileHeight = 4
    /\ config.BorderSize = 1
    /\ index = 3 /\ tiles.n = 4
    /\ tile.SourceWidth = 1 /\ tile.SourceHeight = 1
    /\ touched.count = 16

\* C16: a copy_tile whose index is tile_count or more returns false and
\* leaves the tile as it was, every metadata field and every pixel.
C16_PastIndexRejected ==
    [][(pc' = "copied" /\ index' >= tiles.n) => (ret' = "false" /\ tile' = tile)]_vars

\* copy_tile has returned false for an index past the last tile, on a tile
\* that holds the last tile copied before.
C16_Witness ==
    /\ pc = "copied" /\ ret = "false"
    /\ ValidConfig(config)
    /\ index = tiles.n + 1
    /\ Len(rects) = tiles.n /\ tiles.n >= 2
    /\ tile.TileIndex = tiles.n - 1
    /\ tile.Pixels[0] = ImagePixel(tile.SourceX, tile.SourceY)


\* C17: with a configuration whose TileWidth or TileHeight is at most twice
\* the border, copy_tile returns false for every index and leaves the tile
\* as it was, metadata and pixels.
C17_InvalidConfigRejected ==
    [][(pc' = "copied" /\ ~ValidConfig(config)) => (ret' = "false" /\ tile' = tile)]_vars

---------------------------------------------------------------------------
(* The I/O queue: a binary heap of pending operations in an array.          *)

\* The capacity of the queue, which a build may set.
IOQ_MAX_OPS == 5

\* ioq_order on an offset and a priority and an operation of the queue.
ioq_order_PriorityOnly(offset, priority, op) == priority < op.Priority

ioq_order(offset, priority, op) ==
    IF priority = op.Priority THEN offset < op.Offset ELSE priority < op.Priority

\* ioq_order on two operations of the queue.
ioq_order_ops(a, b) ==
    IF a.Priority = b.Priority THEN a.Offset < b.Offset ELSE a.Priority < b.Priority

\* io_queue_add, its loop: the parents that come after the new operation move
\* down from pos; the result is the array and the place left for the new
\* operation.
RECURSIVE add_loop(_, _, _, _)
add_loop(Items, pos, offset, priority) ==
    IF pos > 0 /\ ioq_order(offset, priority, Items[(pos - 1) \div 2])
    THEN add_loop([Items EXCEPT ![pos] = Items[(pos - 1) \div 2]],
                  (pos - 1) \div 2, offset, priority)
    ELSE [Items |-> Items, pos |-> pos]

\* io_queue_size: the number of operations in the queue.
io_queue_size(q) == q.Count

\* io_queue_add that, given a full queue, returns false but stores the
\* operation over the last one.
io_queue_add_Overwrite(q, offset, priority) ==
    IF q.Count < IOQ_MAX_OPS
    THEN LET up == add_loop(q.Items, q.Count, offset, priority)
         IN  [ret |-> TRUE,
              ioq |-> [Count |-> q.Count + 1,
                       Items |-> [up.Items EXCEPT
                                     ![up.pos] = [Offset |-> offset,
                                                  Priority |-> priority]]]]
    ELSE [ret |-> FALSE,
          ioq |-> [q EXCEPT !.Items[q.Count - 1] = [Offset |-> offset,
                                                    Priority |-> priority]]]

\* io_queue_add: the return value and the queue afterwards.
io_queue_add(q, offset, priority) ==
    IF q.Count < IOQ_MAX_OPS
    THEN LET up == add_loop(q.Items, q.Count, offset, priority)
         IN  [ret |-> TRUE,
              ioq |-> [Count |-> q.Count + 1,
                       Items |-> [up.Items EXCEPT
                                     ![up.pos] = [Offset |-> offset,
                                                  Priority |-> priority]]]]
    ELSE [ret |-> FALSE, ioq |-> q]

\* next_loop that copies the child up and leaves the child where it was.
RECURSIVE next_loop_CopyUp(_, _, _)
next_loop_CopyUp(Items, pos, count) ==
    LET l == 2 * pos + 1
        r == 2 * pos + 2
    IN  IF l >= count THEN Items
        ELSE LET m == IF r >= count THEN l
                      ELSE IF ioq_order_ops(Items[l], Items[r]) THEN l ELSE r
             IN  IF ioq_order_ops(Items[pos], Items[m]) THEN Items
                 ELSE next_loop_CopyUp([Items EXCEPT ![pos] = Items[m]], m, count)

\* io_queue_next, its loop: the operation at pos changes places with its
\* first child in order until it comes before that child or has none.
RECURSIVE next_loop(_, _, _)
next_loop(Items, pos, count) ==
    LET l == 2 * pos + 1
        r == 2 * pos + 2
    IN  IF l >= count THEN Items
        ELSE LET m == IF r >= count THEN l
                      ELSE IF ioq_order_ops(Items[l], Items[r]) THEN l ELSE r
             IN  IF ioq_order_ops(Items[pos], Items[m]) THEN Items
                 ELSE next_loop([Items EXCEPT ![pos] = Items[m], ![m] = Items[pos]],
                                m, count)

\* io_queue_next that stores the first item's offset before it looks at
\* Count.
io_queue_next_StoresFirst(q, offset) ==
    IF q.Count > 0
    THEN [ret    |-> TRUE,
          offset |-> q.Items[0].Offset,
          ioq    |-> [Count |-> q.Count - 1,
                      Items |-> next_loop([q.Items EXCEPT ![0] = q.Items[q.Count - 1]],
                                          0, q.Count - 1)]]
    ELSE [ret |-> FALSE, offset |-> q.Items[0].Offset, ioq |-> q]

\* io_queue_next: the return value, the offset stored and the queue
\* afterwards.
io_queue_next(q, offset) ==
    IF q.Count > 0
    THEN [ret    |-> TRUE,
          offset |-> q.Items[0].Offset,
          ioq    |-> [Count |-> q.Count - 1,
                      Items |-> next_loop([q.Items EXCEPT ![0] = q.Items[q.Count - 1]],
                                          0, q.Count - 1)]]
    ELSE [ret |-> FALSE, offset |-> offset, ioq |-> q]

\* io_queue_clear.
io_queue_clear(q) == [q EXCEPT !.Count = 0]

\* Offsets run over 0 .. MaxOffset and priorities over 0 .. MaxPriority.
MaxOffset == 2

MaxPriority == 1

IoOps == [Offset : 0 .. MaxOffset, Priority : 0 .. MaxPriority]

\* No operation pending.
NonePending == [op \in IoOps |-> 0]

\* The operations in the queue's array below Count, with their numbers.
QueuedOps(q) ==
    [op \in IoOps |-> Cardinality({i \in 0 .. q.Count - 1 : q.Items[i] = op})]

\* After io_queue_init: Count is 0 and Items holds what the memory held.
InitIoq ==
    /\ pc = "init"
    /\ \E junk \in {op \in IoOps : op.Offset = op.Priority} :
          ioq = [Count |-> 0, Items |-> [i \in 0 .. IOQ_MAX_OPS - 1 |-> junk]]
    /\ ioRet = FALSE /\ ioOffset = 0
    /\ pending = NonePending /\ ioLast = Nil
    /\ IdlePixels /\ IdleColor /\ IdleCodec /\ IdleTables /\ IdleQuant /\ IdleDct
    /\ IdleZigZag /\ IdleTiler /\ IdleSample

IoQueueAdd ==
    /\ pc \in {"init", "add", "next", "clear"}
    /\ \E offset \in 0 .. MaxOffset, priority \in 0 .. MaxPriority :
          LET a == io_queue_add(ioq, offset, priority)
          IN  /\ ioq' = a.ioq
              /\ ioRet' = a.ret
              /\ pending' = IF a.ret
                            THEN [pending EXCEPT
                                     ![[Offset |-> offset, Priority |-> priority]] = @ + 1]
                            ELSE pending
    /\ pc' = "add"
    /\ UNCHANGED <<ioOffset, ioLast, varsPixels, varsColor, varsCodec, varsTables,
                   varsQuant, varsDct, varsZigZag, varsTiler,
                   varsSample>>

IoQueueNext ==
    /\ pc \in {"init", "add", "next", "clear"}
    /\ LET n == io_queue_next(ioq, ioOffset)
       IN  /\ ioq' = n.ioq
           /\ ioRet' = n.ret
           /\ ioOffset' = n.offset
           /\ ioLast' = IF n.ret THEN ioq.Items[0] ELSE ioLast
           /\ pending' = IF n.ret THEN [pending EXCEPT ![ioq.Items[0]] = @ - 1]
                         ELSE pending
    /\ pc' = "next"
    /\ UNCHANGED <<varsPixels, varsColor, varsCodec, varsTables, varsQuant, varsDct,
                   varsZigZag, varsTiler,
                   varsSample>>

IoQueueClear ==
    /\ pc \in {"add", "next"}
    /\ ioq' = io_queue_clear(ioq)
    /\ pending' = NonePending
    /\ pc' = "clear"
    /\ UNCHANGED <<ioRet, ioOffset, ioLast, varsPixels, varsColor, varsCodec,
                   varsTables, varsQuant, varsDct, varsZigZag, varsTiler,
                   varsSample>>

NextIoq == IoQueueAdd \/ IoQueueNext \/ IoQueueClear

SpecIoq == InitIoq /\ [][NextIoq]_vars

\* Whether operation a comes no later than operation b: the lower priority
\* number first, then the lower offset.
NoLater(a, b) ==
    \/ a.Priority < b.Priority
    \/ a.Priority = b.Priority /\ a.Offset <= b.Offset

\* C18: after any io_queue_add and io_queue_next calls, io_queue_next
\* succeeds exactly if an operation is pending, takes from the queue a pending
\* operation that no pending operation precedes in (Priority, Offset) order,
\* stores its offset and leaves the others queued; two io_queue_next calls in
\* a row return operations in non-decreasing (Priority, Offset) order.
C18_NextIsMinimal ==
    [][pc' = "next" =>
          /\ ioRet' = (\E op \in IoOps : pending[op] > 0)
          /\ ioRet' =>
                /\ pending[ioLast'] > 0
                /\ ioOffset' = ioLast'.Offset
                /\ \A op \in IoOps : pending[op] > 0 => NoLater(ioLast', op)
                /\ QueuedOps(ioq') = [pending EXCEPT ![ioLast'] = @ - 1]
                /\ (pc = "next" /\ ioRet) => NoLater(ioLast, ioLast')]_vars

\* The second io_queue_next in a row has taken an operation from a queue
\* that held three more, of both priorities.
C18_Witness ==
    /\ pc = "next" /\ ioRet
    /\ ioq.Count = 3
    /\ ioLast = [Offset |-> 2, Priority |-> 0]
    /\ ioOffset = 2
    /\ pending[[Offset |-> 0, Priority |-> 1]] = 2
    /\ pending[[Offset |-> 2, Priority |-> 0]] = 1


\* The number of operations accepted and not yet returned.
RECURSIVE SumOver(_, _)
SumOver(f, S) ==
    IF S = {} THEN 0
    ELSE LET x == CHOOSE x \in S : TRUE
         IN  f[x] + SumOver(f, S \ {x})

PendingCount == SumOver(pending, IoOps)

\* C25: the queue is bounded.  io_queue_add returns true and increases
\* io_queue_size by one while fewer than IOQ_MAX_OPS operations are pending;
\* when IOQ_MAX_OPS operations are pending it returns false and leaves Count
\* and every stored item unchanged; Count never exceeds IOQ_MAX_OPS.
C25_QueueBounded ==
    /\ [][pc' = "add" =>
             IF PendingCount < IOQ_MAX_OPS
             THEN ioRet' /\ io_queue_size(ioq') = io_queue_size(ioq) + 1
             ELSE ~ioRet' /\ ioq'.Count = ioq.Count /\ ioq'.Items = ioq.Items]_vars
    /\ [](ioq.Count <= IOQ_MAX_OPS)

\* C25 witness: io_queue_add has been refused by a queue that holds
\* IOQ_MAX_OPS operations.
C25_Witness ==
    /\ pc = "add" /\ ~ioRet
    /\ io_queue_size(ioq) = IOQ_MAX_OPS
    /\ PendingCount = IOQ_MAX_OPS

\* C28: after any sequence of io_queue_init, io_queue_add, io_queue_next and
\* io_queue_clear, io_queue_size is the number of accepted adds less the
\* number of successful nexts since the last init or clear, and the
\* operations in Items[0 .. Count-1], with their numbers, are the accepted
\* operations not yet returned: none is lost and none is duplicated, equal
\* operations included.
C28_QueueHoldsPending ==
    /\ io_queue_size(ioq) = PendingCount
    /\ QueuedOps(ioq) = pending

\* C28 witness: io_queue_next has taken an operation from a queue that still
\* holds two equal operations and another one.
C28_Witness ==
    /\ pc = "next" /\ ioRet
    /\ io_queue_size(ioq) >= 3
    /\ \E op \in IoOps : pending[op] >= 2
    /\ \E op \in IoOps : pending[op] = 1

\* C29: io_queue_next on an empty queue (after init, after clear, or after
\* the last pending operation was removed) returns false and changes neither
\* the offset of the caller nor the queue's Count.
C29_NextOnEmpty ==
    [][(pc' = "next" /\ pending = NonePending) =>
          /\ ~ioRet'
          /\ ioOffset' = ioOffset
          /\ io_queue_size(ioq') = 0
          /\ ioq' = ioq]_vars

\* C29 witness: io_queue_next has been refused by a queue that was emptied by
\* io_queue_next, the offset last returned still in place and different from
\* the offset at the front of the array.
C29_Witness ==
    /\ pc = "next" /\ ~ioRet
    /\ pending = NonePending
    /\ ioLast # Nil
    /\ ioOffset = ioLast.Offset
    /\ ioOffset # 0
    /\ ioq.Items[0].Offset # ioOffset

---------------------------------------------------------------------------
(* subsample alone, on 16x16 blocks of YCoCg samples.                       *)

\* Blocks whose samples step through a span of values from a lowest value:
\* flat blocks, stripes and ramps over the range of Co and Cg.
YCoCgBlocks ==
    {[k \in 0 .. 767 |-> lo + (((k \div 3) * step + (k % 3)) % span)] :
        lo \in {-255, -100, -3, 0, 100}, step \in {0, 1, 3, 5},
        span \in {1, 2, 3, 7, 156}}

InitSample ==
    /\ pc = "ycocg"
    /\ ycocg \in YCoCgBlocks
    /\ chroma = 0
    /\ IdlePixels /\ IdleCodec /\ IdleTables /\ IdleQuant /\ IdleDct /\ IdleZigZag
    /\ IdleTiler /\ IdleIoq

\* subsample of Co (channel 1) or Cg (channel 2) into the block the forward
\* transform is given.
Subsample ==
    /\ pc = "ycocg"
    /\ \E c \in {1, 2} :
          /\ chroma' = c
          /\ src' = subsample(ycocg, c)
    /\ pc' = "sampled"
    /\ UNCHANGED <<ycocg, quant, coef, dst, varsPixels, varsCodec, varsTables,
                   varsQuant, varsZigZag, varsTiler, varsIoq>>

NextSample == Subsample

SpecSample == InitSample /\ [][NextSample]_vars

\* The sum of the four samples of channel chroma that output sample (i, j)
\* is made of.
GroupSum(i, j) ==
    ycocg[((2 * i) * 16 + (2 * j)) * 3 + chroma]
        + ycocg[((2 * i) * 16 + (2 * j + 1)) * 3 + chroma]
        + ycocg[((2 * i + 1) * 16 + (2 * j)) * 3 + chroma]
        + ycocg[((2 * i + 1) * 16 + (2 * j + 1)) * 3 + chroma]

---------------------------------------------------------------------------
(* Claims about the two decoders.                                           *)

\* C19: given the same Y, Co, Cg coefficients and the same tables,
\* decode16x16i_rgb and decode16x16i_rgba write the same colour bytes,
\* RGB[3i + c] = RGBA[4i + c] for every pixel i in 0 .. 255 and channel c in
\* 0 .. 2, each in 0 .. 255.
C19_RgbMatchesRgba ==
    pc = "decoded_rgb" =>
        /\ DOMAIN rgbOut = 0 .. 767
        /\ \A i \in 0 .. 255, c \in 0 .. 2 :
              /\ rgbOut[3 * i + c] = rgbaOut[4 * i + c]
              /\ rgbOut[3 * i + c] \in 0 .. 255

\* Both decoders have run on a block whose decoded pixels are not grey and
\* reach both ends of the byte range.
C19_Witness ==
    /\ pc = "decoded_rgb"
    /\ \E i \in 0 .. 255 : rgbOut[3 * i] # rgbOut[3 * i + 2]
    /\ \E k \in 0 .. 767 : rgbOut[k] = 0
    /\ \E k \in 0 .. 767 : rgbOut[k] = 255

===========================================================================
